---- MODULE Spec2Model ----
(***************************************************************************)
(* A model of the go-server HTTP core: the Header Map, the Request Decoder  *)
(* and the Response Encoder (app/http.go), the Content-Encoding Negotiator  *)
(* and the gzip codec (app/encoding.go), the handlers (app/handlers.go),    *)
(* the Router, the Listener Loop and the Connection Session (app/router.go, *)
(* type server), and the program around them (app/main.go).                *)
(*                                                                         *)
(* Go strings are modelled as sequences of one-character strings, so that  *)
(* case folding, trimming, splitting and prefix tests are computed as the  *)
(* library computes them.                                                  *)
(***************************************************************************)
EXTENDS Integers, Sequences, FiniteSets, TLC

VARIABLES
    h,          \* Header Map spec: the Headers map under test (key -> value)
    hlast       \* Header Map spec: the last call made on h, and for a Get the
                \* Set call made just before it

hvars == <<h, hlast>>

VARIABLES
    dbuf,       \* Request Decoder spec: the buffer handed to Request.From
    dres        \* Request Decoder spec: the outcome of the call

dvars == <<dbuf, dres>>

VARIABLES
    routes,     \* Router spec: server.routes, in registration order
    rlast       \* Router spec: the last Route call and what it did

rvars == <<routes, rlast>>

VARIABLES
    lpc,        \* server.Start: "select" (the cancellation check at the top of
                \* the loop), "accept" (blocked in Accept), "logerr" (back at
                \* the top of the loop, an accept error logged), "returned",
                \* or "exited" (main has returned after Start)
    ctxDone,    \* whether the context passed to Start has been cancelled
    crashed,    \* whether a panic in a goroutine has ended the process
    pc,         \* per connection, where its handleConn goroutine is: "idle"
                \* (not accepted yet), "read" (blocked in conn.Read), "handler"
                \* (in the handler Route invoked), "decide" (the handler has
                \* returned nil), "closed" (handleConn has returned) or "dead"
                \* (the process ended under it)
    sock,       \* per connection, its socket: "none", "open" or "closed"
    buf,        \* per connection, the bytes of the last successful read of
                \* its running session
    req,        \* per connection, the request decoded from them
    running,    \* per connection, the handlers running for it, by name
    unanswered, \* per connection, the requests read and not yet answered
    resp,       \* per connection, the bytes of the last response written
    ended       \* per connection, why handleConn returned: "no" (it has
                \* not), "timeout", "readerr", "handlererr" or "close"

svars == <<lpc, ctxDone, crashed, pc, sock, buf, req, running, unanswered, resp, ended>>

VARIABLES
    cin,        \* Function specs (wire round trip, Response Encoder,
                \* negotiator, codec, echo handler): the arguments of the call
    cout        \* Function specs: the outcome of the call, once made

cvars == <<cin, cout>>

VARIABLES
    env,        \* Program specification: who called Start: "start" (a caller
                \* holding a cancellable context and the shutdown channel, as
                \* the tests do) or "main" (the program's main, under which
                \* the operating system's signals cancel the context)
    sigCh,      \* the number of signals buffered in the shutdown channel
    wpc         \* the goroutine Start spawns first: "select" (waiting for
                \* the context or the channel), "ctx" or "signal" (it has
                \* logged the shutdown, woken by the one or the other)

mvars == <<env, sigCh, wpc>>

vars == <<h, hlast, dbuf, dres, routes, rlast,
          lpc, ctxDone, crashed, pc, sock, buf, req, running, unanswered, resp, ended,
          cin, cout, env, sigCh, wpc>>

\* What each specification leaves alone.
HOthers == <<dvars, rvars, svars, cvars, mvars>>

DOthers == <<hvars, rvars, svars, cvars, mvars>>

ROthers == <<hvars, dvars, svars, cvars, mvars>>

SOthers == <<hvars, dvars, rvars, cvars, mvars>>

COthers == <<hvars, dvars, rvars, svars, mvars>>

----------------------------------------------------------------------------
(* Strings *)

LowerLetters == <<"a","b","c","d","e","f","g","h","i","j","k","l","m",
                  "n","o","p","q","r","s","t","u","v","w","x","y","z">>

UpperLetters == <<"A","B","C","D","E","F","G","H","I","J","K","L","M",
                  "N","O","P","Q","R","S","T","U","V","W","X","Y","Z">>

IsLower(c) == \E i \in 1..26 : LowerLetters[i] = c

IsUpper(c) == \E i \in 1..26 : UpperLetters[i] = c

ToLower(c) ==
    IF IsUpper(c) THEN LowerLetters[CHOOSE i \in 1..26 : UpperLetters[i] = c] ELSE c

ToUpper(c) ==
    IF IsLower(c) THEN UpperLetters[CHOOSE i \in 1..26 : LowerLetters[i] = c] ELSE c

\* strings.EqualFold on ASCII strings: equal length, letters equal up to case.
EqualFoldExact(s, t) == s = t

EqualFold(s, t) ==
    /\ Len(s) = Len(t)
    /\ \A i \in 1..Len(s) : ToLower(s[i]) = ToLower(t[i])

\* The white space strings.TrimSpace removes (the ASCII part of it).
IsSpace(c) == c \in {" ", "\t", "\n", "\r"}

RECURSIVE TrimLeft(_)
TrimLeft(s) ==
    IF s # <<>> /\ IsSpace(Head(s)) THEN TrimLeft(Tail(s)) ELSE s

RECURSIVE TrimRight(_)
TrimRight(s) ==
    IF s # <<>> /\ IsSpace(s[Len(s)]) THEN TrimRight(SubSeq(s, 1, Len(s) - 1)) ELSE s

TrimSpace(s) == TrimRight(TrimLeft(s))

\* strings.HasPrefix
HasPrefixExact(s, p) == s = p

HasPrefix(s, p) == Len(p) <= Len(s) /\ SubSeq(s, 1, Len(p)) = p

\* The bytes net/http accepts in a header field name (token characters; the
\* backquote, also one of them, is in no string of this model).
IsTokenChar(c) ==
    \/ IsLower(c)
    \/ IsUpper(c)
    \/ c \in {"0","1","2","3","4","5","6","7","8","9"}
    \/ c \in {"!","#","$","%","&","'","*","+","-",".","^","_","|","~"}

\* net/http.CanonicalHeaderKey: a name holding a space or another non-token
\* byte is returned as it is; otherwise the first letter and every letter
\* after a hyphen are upper-cased and all other letters lower-cased.
CanonicalHeaderKey(s) ==
    IF \E i \in 1..Len(s) : ~IsTokenChar(s[i])
    THEN s
    ELSE [i \in 1..Len(s) |->
             IF i = 1 \/ s[i-1] = "-" THEN ToUpper(s[i]) ELSE ToLower(s[i])]

----------------------------------------------------------------------------
(* Header Map: type Headers map[string]string *)

EmptyHeaders == <<>>

\* The map h with key k set to v (Go: h[k] = v).
MapPut(m, k, v) == [x \in (DOMAIN m) \cup {k} |-> IF x = k THEN v ELSE m[x]]

\* The map h without key k (Go: delete(h, k)).
MapDelete(m, k) == [x \in (DOMAIN m) \ {k} |-> m[x]]

\* Headers.Get: the outcomes of the scan `for hk, v := range h`, which visits
\* the keys in an unspecified order and returns at the first that folds to k.
HeadersGetExact(m, k) ==
    IF k \in DOMAIN m
    THEN {[value |-> m[k], found |-> TRUE]}
    ELSE {[value |-> <<>>, found |-> FALSE]}

HeadersGet(m, k) ==
    IF \E hk \in DOMAIN m : EqualFold(hk, k)
    THEN {[value |-> m[hk], found |-> TRUE] : hk \in {x \in DOMAIN m : EqualFold(x, k)}}
    ELSE {[value |-> <<>>, found |-> FALSE]}

\* Headers.Set with the scan for an existing key left out (a faulty variant).
HeadersSetNoScan(m, k, v) ==
    IF k = <<>> THEN {m}
    ELSE IF v = <<>> THEN {MapDelete(m, k)}
    ELSE {MapPut(m, TrimSpace(k), v)}

\* Headers.Set storing a new name as trimmed, not canonicalized (a faulty
\* variant).
HeadersSetNoCanon(m, k, v) ==
    IF k = <<>> THEN {m}
    ELSE IF v = <<>> THEN {MapDelete(m, k)}
    ELSE LET t == TrimSpace(k)
             hit == {hk \in DOMAIN m : EqualFold(hk, t)}
         IN  IF hit # {}
             THEN {MapPut(m, hk, v) : hk \in hit}
             ELSE {MapPut(m, t, v)}

\* Headers.Set: the maps the call can leave behind.
HeadersSet(m, k, v) ==
    IF k = <<>> THEN {m}
    ELSE IF v = <<>> THEN {MapDelete(m, k)}
    ELSE LET t == TrimSpace(k)
             hit == {hk \in DOMAIN m : EqualFold(hk, t)}
         IN  IF hit # {}
             THEN {MapPut(m, hk, v) : hk \in hit}
             ELSE {MapPut(m, CanonicalHeaderKey(t), v)}

----------------------------------------------------------------------------
(* Request Decoder: func (r *Request) From(b []byte) error *)

CRLF == <<"\r", "\n">>

\* strings.Index: the first place where sep occurs in s, 0 when there is none.
Index(s, sep) ==
    LET at == {i \in 1..(Len(s) - Len(sep) + 1) : SubSeq(s, i, i + Len(sep) - 1) = sep}
    IN  IF at = {} THEN 0 ELSE CHOOSE i \in at : \A j \in at : i <= j

\* strings.Split(s, sep) for a non-empty sep.
RECURSIVE Split(_, _)
Split(s, sep) ==
    LET i == Index(s, sep)
    IN  IF i = 0
        THEN <<s>>
        ELSE <<SubSeq(s, 1, i - 1)>> \o Split(SubSeq(s, i + Len(sep), Len(s)), sep)

\* strings.SplitN(s, sep, 2): cut at the first sep only.
SplitN2(s, sep) ==
    LET i == Index(s, sep)
    IN  IF i = 0
        THEN <<s>>
        ELSE <<SubSeq(s, 1, i - 1), SubSeq(s, i + Len(sep), Len(s))>>

\* The request before From has run, and the shape of an outcome: res is "ok"
\* (From returned nil), "error" (it returned an error) or "panic" (an index
\* or slice bound out of range stopped it).
NotDecoded ==
    [res |-> "none", method |-> <<>>, target |-> <<>>, version |-> <<>>,
     headers |-> EmptyHeaders, body |-> <<>>]

\* The header loop of From over the lines ls, from the map m: the outcomes,
\* each a map and whether kv[1] was out of range on a line without a colon.
RECURSIVE FromHeaders(_, _)
FromHeaders(ls, m) ==
    IF ls = <<>> THEN {[panic |-> FALSE, headers |-> m]}
    ELSE IF Len(Head(ls)) = 0 THEN FromHeaders(Tail(ls), m)
    ELSE LET kv == SplitN2(Head(ls), <<":">>)
         IN  IF Len(kv) < 2
             THEN {[panic |-> TRUE, headers |-> m]}
             ELSE UNION { FromHeaders(Tail(ls), m2) :
                            m2 \in HeadersSet(m, TrimSpace(kv[1]), TrimSpace(kv[2])) }

\* Request.From(b): the outcomes of decoding the buffer b into a new Request.
From(b) ==
    LET parts == Split(b, CRLF)
        metaSegs == Split(parts[1], <<" ">>)
        meta == [res |-> "panic",
                 method |-> TrimSpace(metaSegs[1]),
                 target |-> IF Len(metaSegs) >= 2 THEN TrimSpace(metaSegs[2]) ELSE <<>>,
                 version |-> IF Len(metaSegs) >= 3 THEN TrimSpace(metaSegs[3]) ELSE <<>>,
                 headers |-> EmptyHeaders, body |-> <<>>]
    IN  IF Len(metaSegs) < 3 THEN {meta}
        ELSE IF Len(parts) < 2 THEN {meta}
        ELSE { IF o.panic
               THEN [meta EXCEPT !.headers = o.headers]
               ELSE [meta EXCEPT !.res = "ok", !.headers = o.headers,
                                 !.body = parts[Len(parts)]] :
               o \in FromHeaders(SubSeq(parts, 2, Len(parts) - 1), EmptyHeaders) }

----------------------------------------------------------------------------
(* Response Encoder: func httpResponse(w, code, headers, body) error *)

HeaderConnection == <<"C", "o", "n", "n", "e", "c", "t", "i", "o", "n">>

HeaderContentLength == <<"C", "o", "n", "t", "e", "n", "t", "-", "L", "e", "n", "g", "t", "h">>

ConnectionKeepAlive == <<"k", "e", "e", "p", "-", "a", "l", "i", "v", "e">>

ConnectionClose == <<"c", "l", "o", "s", "e">>

StatusOK == 200

StatusCreated == 201

StatusNotFound == 404

StatusInternalServerError == 500

\* net/http.StatusText, for the codes the handlers use.
StatusText(code) ==
    CASE code = StatusOK -> <<"O", "K">>
      [] code = StatusCreated -> <<"C", "r", "e", "a", "t", "e", "d">>
      [] code = StatusNotFound -> <<"N", "o", "t", " ", "F", "o", "u", "n", "d">>
      [] code = StatusInternalServerError -> <<"I", "n", "t", "e", "r", "n", "a", "l", " ", "S", "e", "r", "v", "e", "r", " ", "E", "r", "r", "o", "r">>
      [] OTHER -> <<>>

DecimalDigits == <<"0","1","2","3","4","5","6","7","8","9">>

\* The %d verb on a natural number.
RECURSIVE Itoa(_)
Itoa(n) ==
    IF n < 10 THEN <<DecimalDigits[n + 1]>>
    ELSE Itoa(n \div 10) \o <<DecimalDigits[(n % 10) + 1]>>

\* The orders in which `for h, v := range headers` may visit the keys ks.
RECURSIVE KeyOrders(_)
KeyOrders(ks) ==
    IF ks = {} THEN {<<>>}
    ELSE UNION { { <<k>> \o rest : rest \in KeyOrders(ks \ {k}) } : k \in ks }

\* The header lines of the map m, its keys visited in the order ord.
RECURSIVE HeaderLines(_, _)
HeaderLines(m, ord) ==
    IF ord = <<>> THEN <<>>
    ELSE Head(ord) \o <<":", " ">> \o m[Head(ord)] \o CRLF \o HeaderLines(m, Tail(ord))

\* httpResponse without the Connection default (a faulty variant).
httpResponseNoDefault(code, headers, body) ==
    { <<"H", "T", "T", "P", "/", "1", ".", "1", " ">> \o Itoa(code) \o <<" ">> \o StatusText(code) \o CRLF
        \o HeaderLines(headers, ord)
        \o (IF Len(body) > 0
            THEN HeaderContentLength \o <<":", " ">> \o Itoa(Len(body)) \o CRLF \o CRLF \o body
            ELSE <<>>) :
        ord \in KeyOrders(DOMAIN headers) }

\* httpResponse ending the header section with a blank line whatever the
\* body (a faulty variant).
httpResponseBlankLine(code, headers, body) ==
    LET withConn == IF \E r \in HeadersGet(headers, HeaderConnection) : ~r.found
                    THEN HeadersSet(headers, HeaderConnection, ConnectionKeepAlive)
                    ELSE {headers}
    IN  UNION { { <<"H", "T", "T", "P", "/", "1", ".", "1", " ">> \o Itoa(code) \o <<" ">> \o StatusText(code) \o CRLF
                    \o HeaderLines(m, ord)
                    \o (IF Len(body) > 0
                        THEN HeaderContentLength \o <<":", " ">> \o Itoa(Len(body)) \o CRLF
                        ELSE <<>>)
                    \o CRLF \o body :
                    ord \in KeyOrders(DOMAIN m) } : m \in withConn }

\* httpResponse: the byte strings it may hand to its one w.Write call (one
\* for each order of the header lines). A nil map is the empty map.
httpResponse(code, headers, body) ==
    LET statusLine == <<"H", "T", "T", "P", "/", "1", ".", "1", " ">> \o Itoa(code) \o <<" ">> \o StatusText(code) \o CRLF
        withConn == IF \E r \in HeadersGet(headers, HeaderConnection) : ~r.found
                    THEN HeadersSet(headers, HeaderConnection, ConnectionKeepAlive)
                    ELSE {headers}
        bodyPart == IF Len(body) > 0
                    THEN HeaderContentLength \o <<":", " ">> \o Itoa(Len(body))
                           \o CRLF \o CRLF \o body
                    ELSE <<>>
    IN  UNION { { statusLine \o HeaderLines(m, ord) \o bodyPart :
                    ord \in KeyOrders(DOMAIN m) } : m \in withConn }

\* What httpResponse returns once w.Write has returned writeErr ("nil" when
\* the write succeeded): nil, or an error wrapping the writer's.
httpResponseReturnNil(writeErr) == [nil |-> TRUE, wraps |-> "nil"]

httpResponseReturn(writeErr) ==
    IF writeErr # "nil"
    THEN [nil |-> FALSE, wraps |-> writeErr]
    ELSE [nil |-> TRUE, wraps |-> "nil"]

\* A call of httpResponse on a writer whose Write returns writeErr: the
\* outcomes, each the Write calls made, in order, and the value returned.
httpResponseCall(code, headers, body, writeErr) ==
    { [writes |-> <<s>>, err |-> httpResponseReturn(writeErr)] :
        s \in httpResponse(code, headers, body) }

----------------------------------------------------------------------------
(* Router: server.Register, server.Route *)

\* A route and a request match: `req.Method == m.method &&
\* strings.HasPrefix(req.Target, m.prefix)`.
RouteMatchesAnyMethod(m, method, target) == HasPrefix(target, m.prefix)

\* The same with the prefix compared to the whole target (a faulty variant).
RouteMatchesExact(m, method, target) == method = m.method /\ target = m.prefix

RouteMatches(m, method, target) ==
    method = m.method /\ HasPrefix(target, m.prefix)

\* server.Register: the route appended to the list.
Register(rs, method, prefix, handler) ==
    Append(rs, [method |-> method, prefix |-> prefix, handler |-> handler])

\* The handler Route calls when no route matches.
NotFoundHandler == <<"h", "a", "n", "d", "l", "e", "N", "o", "t", "F", "o", "u", "n", "d">>

\* Route scanning on after a match instead of returning (a faulty variant).
RECURSIVE RouteNoReturn(_, _, _)
RouteNoReturn(rs, method, target) ==
    IF rs = <<>> THEN <<NotFoundHandler>>
    ELSE IF RouteMatches(Head(rs), method, target)
    THEN <<Head(rs).handler>> \o RouteNoReturn(Tail(rs), method, target)
    ELSE RouteNoReturn(Tail(rs), method, target)

\* server.Route: the handlers it invokes, in order, for a request: the scan
\* of s.routes returns at the first match, and handleNotFound follows a scan
\* without a match.
RECURSIVE Route(_, _, _)
Route(rs, method, target) ==
    IF rs = <<>> THEN <<NotFoundHandler>>
    ELSE IF RouteMatches(Head(rs), method, target)
    THEN <<Head(rs).handler>>
    ELSE Route(Tail(rs), method, target)

\* What Route returns: `return m.handler(ctx, req, w)`, the error value of
\* the handler it invoked.
RouteResult(hres) == hres

\* handleNotFound: httpResponse(w, http.StatusNotFound, nil, "").
handleNotFoundOK == httpResponse(StatusOK, EmptyHeaders, <<>>)

handleNotFound == httpResponse(StatusNotFound, EmptyHeaders, <<>>)

----------------------------------------------------------------------------
(* Content-Encoding Negotiator and the built-in handlers *)

HeaderAcceptEncoding == <<"A", "c", "c", "e", "p", "t", "-", "E", "n", "c", "o", "d", "i", "n", "g">>

HeaderContentType == <<"C", "o", "n", "t", "e", "n", "t", "-", "T", "y", "p", "e">>

HeaderContentEncoding == <<"C", "o", "n", "t", "e", "n", "t", "-", "E", "n", "c", "o", "d", "i", "n", "g">>

HeaderUserAgent == <<"U", "s", "e", "r", "-", "A", "g", "e", "n", "t">>

ContentTypeTextPlain == <<"t", "e", "x", "t", "/", "p", "l", "a", "i", "n">>

ContentTypeApplicationOctetStream == <<"a", "p", "p", "l", "i", "c", "a", "t", "i", "o", "n", "/", "o", "c", "t", "e", "t", "-", "s", "t", "r", "e", "a", "m">>

EncodingGzip == <<"g", "z", "i", "p">>

\* encoderFromRequest comparing the tokens untrimmed (a faulty variant).
encoderFromRequestNoTrim(r) ==
    \E g \in HeadersGet(r.headers, HeaderAcceptEncoding) :
        /\ g.found
        /\ LET encodings == Split(g.value, <<",">>)
           IN  \E i \in 1..Len(encodings) : encodings[i] = EncodingGzip

\* encoderFromRequest: whether it returns the gzip encoder (TRUE) or nil.
encoderFromRequest(r) ==
    \E g \in HeadersGet(r.headers, HeaderAcceptEncoding) :
        /\ g.found
        /\ LET encodings == Split(g.value, <<",">>)
           IN  \E i \in 1..Len(encodings) : TrimSpace(encodings[i]) = EncodingGzip

\* gzipEncoder.Encode and Decode. The gzip member is modelled as the data
\* between one element standing for the gzip header and one standing for its
\* trailer; Decode fails on anything else.
GzipHeader == "<gzip>"

GzipTrailer == "</gzip>"

\* gzip.NewWriter(&buf), w.Write(v), w.Close(): out is what has reached
\* buf. Write puts the member header out before the first data and leaves
\* the data with the compressor; Close puts out the header if none was
\* written, the compressed data and the trailer, which carries the length
\* of the data.
gzipNewWriter == [out |-> <<>>, pending |-> <<>>, wroteHeader |-> FALSE]

gzipWrite(w, v) ==
    [out |-> IF w.wroteHeader THEN w.out ELSE w.out \o <<GzipHeader>>,
     pending |-> w.pending \o v,
     wroteHeader |-> TRUE]

gzipClose(w) ==
    [out |-> (IF w.wroteHeader THEN w.out ELSE w.out \o <<GzipHeader>>)
               \o w.pending \o <<GzipTrailer>> \o Itoa(Len(w.pending)),
     pending |-> <<>>,
     wroteHeader |-> TRUE]

\* Encode returning the buffer without closing the writer (a faulty variant).
gzipEncodeNoClose(v) == gzipWrite(gzipNewWriter, v).out

gzipEncode(v) == gzipClose(gzipWrite(gzipNewWriter, v)).out

\* gzip.NewReader fails unless the bytes start with a member header;
\* buf.ReadFrom fails unless the data ends at a trailer that carries its
\* length.
gzipDecode(v) ==
    IF Len(v) = 0 \/ v[1] # GzipHeader THEN [ok |-> FALSE, data |-> <<>>]
    ELSE LET t == Index(v, <<GzipTrailer>>)
         IN  IF t = 0 THEN [ok |-> FALSE, data |-> <<>>]
             ELSE IF SubSeq(v, t + 1, Len(v)) # Itoa(t - 2)
             THEN [ok |-> FALSE, data |-> <<>>]
             ELSE [ok |-> TRUE, data |-> SubSeq(v, 2, t - 1)]

\* strings.TrimPrefix
TrimPrefix(s, p) == IF HasPrefix(s, p) THEN SubSeq(s, Len(p) + 1, Len(s)) ELSE s

\* NewResponseHeaders: a new map holding the request's Connection header.
NewResponseHeaders(reqHeaders) ==
    UNION { HeadersSet(EmptyHeaders, HeaderConnection, g.value) :
              g \in HeadersGet(reqHeaders, HeaderConnection) }

\* The maps left by h.Set(k, v) on each map of the set ms.
SetAll(ms, k, v) == UNION { HeadersSet(m, k, v) : m \in ms }

\* The responses of httpResponse over each map of the set ms.
RespondAll(code, ms, body) == UNION { httpResponse(code, m, body) : m \in ms }

rootGet == httpResponse(StatusOK, EmptyHeaders, <<>>)

\* echoGet never asking for an encoder (a faulty variant).
echoGetPlain(r) ==
    RespondAll(StatusOK,
               SetAll(NewResponseHeaders(r.headers), HeaderContentType, ContentTypeTextPlain),
               TrimPrefix(r.target, <<"/", "e", "c", "h", "o", "/">>))

echoGet(r) ==
    LET echo == TrimPrefix(r.target, <<"/", "e", "c", "h", "o", "/">>)
        headers == SetAll(NewResponseHeaders(r.headers),
                          HeaderContentType, ContentTypeTextPlain)
    IN  IF encoderFromRequest(r)
        THEN RespondAll(StatusOK,
                        SetAll(headers, HeaderContentEncoding, EncodingGzip),
                        gzipEncode(echo))
        ELSE RespondAll(StatusOK, headers, echo)

userAgentGet(r) ==
    LET headers == SetAll(NewResponseHeaders(r.headers),
                          HeaderContentType, ContentTypeTextPlain)
    IN  UNION { RespondAll(StatusOK, headers, g.value) :
                  g \in HeadersGet(r.headers, HeaderUserAgent) }

\* filesGet answering every case with the request's Connection header and
\* no content type (a faulty variant).
filesGetCopying(r, fs) ==
    RespondAll(IF fs.kind = "notexist" THEN StatusNotFound
               ELSE IF fs.kind = "error" THEN StatusInternalServerError ELSE StatusOK,
               NewResponseHeaders(r.headers),
               fs.data)

\* filesGet, fs being what os.ReadFile returned for the joined path: the
\* file is absent, the read failed with the error text fs.data, or the
\* content fs.data was read.
filesGet(r, fs) ==
    IF fs.kind = "notexist" THEN httpResponse(StatusNotFound, EmptyHeaders, <<>>)
    ELSE IF fs.kind = "error"
    THEN RespondAll(StatusInternalServerError,
                    SetAll(NewResponseHeaders(r.headers),
                           HeaderContentType, ContentTypeTextPlain),
                    fs.data)
    ELSE RespondAll(StatusOK,
                    SetAll(NewResponseHeaders(r.headers),
                           HeaderContentType, ContentTypeApplicationOctetStream),
                    fs.data)

\* The routes main registers, in its order.
MainRoutes ==
    Register(Register(Register(Register(<<>>,
        <<"G", "E", "T">>, <<"/", "f", "i", "l", "e", "s">>, <<"f", "i", "l", "e", "s", "G", "e", "t">>),
        <<"G", "E", "T">>, <<"/", "u", "s", "e", "r", "-", "a", "g", "e", "n", "t">>, <<"u", "s", "e", "r", "A", "g", "e", "n", "t", "G", "e", "t">>),
        <<"G", "E", "T">>, <<"/", "e", "c", "h", "o">>, <<"e", "c", "h", "o", "G", "e", "t">>),
        <<"G", "E", "T">>, <<"/">>, <<"r", "o", "o", "t", "G", "e", "t">>)

\* What the handler named hd hands to w.Write for the request r.
HandlerWrites(hd, r, fs) ==
    CASE hd = <<"r", "o", "o", "t", "G", "e", "t">> -> rootGet
      [] hd = <<"e", "c", "h", "o", "G", "e", "t">> -> echoGet(r)
      [] hd = <<"u", "s", "e", "r", "A", "g", "e", "n", "t", "G", "e", "t">> -> userAgentGet(r)
      [] hd = <<"f", "i", "l", "e", "s", "G", "e", "t">> -> filesGet(r, fs)
      [] OTHER -> handleNotFound

----------------------------------------------------------------------------
(* Header Map specification: any sequence of Set and Get calls on a map   *)
(* that starts empty.                                                      *)

\* Header names and values the calls are made with: the empty name, a name of
\* white space only, case variants of a token name, the same name with a
\* leading space, and case variants of a name that is no token.
HeaderNames ==
    { <<>>, <<" ">>,
      <<"a", "-", "b">>, <<"A", "-", "b">>, <<" ", "a", "-", "b">>,
      <<"a", " ", "b">>, <<"A", " ", "b">> }

HeaderValues == { <<>>, <<"x">>, <<"y">> }

NoCall == [op |-> "none", k |-> <<>>, v |-> <<>>]

NoHeaderCall ==
    [op |-> "none", k |-> <<>>, v |-> <<>>, found |-> FALSE,
     before |-> EmptyHeaders, prev |-> NoCall]

NoRouteCall ==
    [op |-> "none", method |-> <<>>, target |-> <<>>, invoked |-> <<>>,
     hres |-> "nil", result |-> "nil", writes |-> <<>>]

\* The variables of the Header Map, Request Decoder and Router
\* specifications, at rest.
HIdle == h = EmptyHeaders /\ hlast = NoHeaderCall

DIdle == dbuf = <<>> /\ dres = NotDecoded

RIdle == routes = <<>> /\ rlast = NoRouteCall

\* The connections a run may see, in the order the listener accepts them.
MaxConns == 2

Conns == 1..MaxConns

\* The listener and the sessions before Start, no connection made.
SessionsIdle ==
    /\ lpc = "select"
    /\ ctxDone = FALSE
    /\ crashed = FALSE
    /\ pc = [c \in Conns |-> "idle"]
    /\ sock = [c \in Conns |-> "none"]
    /\ buf = [c \in Conns |-> <<>>]
    /\ req = [c \in Conns |-> NotDecoded]
    /\ running = [c \in Conns |-> {}]
    /\ unanswered = [c \in Conns |-> 0]
    /\ resp = [c \in Conns |-> <<>>]
    /\ ended = [c \in Conns |-> "no"]

\* The server before Start, no signal sent.
SIdle ==
    /\ SessionsIdle
    /\ env = "start"
    /\ sigCh = 0
    /\ wpc = "select"

\* No function call set up.
NoArgs == [op |-> "none"]

NoOutcome == [op |-> "none"]

CIdle == cin = NoArgs /\ cout = NoOutcome

HInit == HIdle /\ DIdle /\ RIdle /\ SIdle /\ CIdle

\* h.Set(k, v)
HSet(k, v) ==
    /\ h' \in HeadersSet(h, k, v)
    /\ hlast' = [op |-> "set", k |-> k, v |-> v, found |-> FALSE,
                 before |-> h, prev |-> NoCall]
    /\ UNCHANGED HOthers

\* value, found := h.Get(k)
HGet(k) ==
    /\ \E r \in HeadersGet(h, k) :
          hlast' = [op |-> "get", k |-> k, v |-> r.value, found |-> r.found,
                    before |-> h,
                    prev |-> IF hlast.op = "set"
                             THEN [op |-> "set", k |-> hlast.k, v |-> hlast.v]
                             ELSE NoCall]
    /\ h' = h
    /\ UNCHANGED HOthers

HNext ==
    \/ \E k \in HeaderNames, v \in HeaderValues : HSet(k, v)
    \/ \E k \in HeaderNames : HGet(k)

SpecHeaders == HInit /\ [][HNext]_vars

\* C5: after any sequence of Set calls on a map that starts empty, no two
\* stored keys are equal case-insensitively.
C5_KeysUnique ==
    \A k1 \in DOMAIN h : \A k2 \in DOMAIN h : EqualFold(k1, k2) => k1 = k2

\* C5 witness: a Set with a non-empty value has just hit a stored key that
\* differs from the given name in letter case, in a map of several entries.
C5_Witness ==
    /\ hlast.op = "set"
    /\ hlast.v # <<>>
    /\ \E hk \in DOMAIN hlast.before :
          EqualFold(hk, TrimSpace(hlast.k)) /\ hk # TrimSpace(hlast.k)
    /\ Cardinality(DOMAIN h) >= 2

\* C6 as stated: Get(m) right after Set(n, v), n and v non-empty and m equal
\* to n up to letter case, returns (v, found).
C6_Original ==
    ( /\ hlast.op = "get"
      /\ hlast.prev.op = "set"
      /\ hlast.prev.k # <<>>
      /\ hlast.prev.v # <<>>
      /\ EqualFold(hlast.k, hlast.prev.k) )
    => (hlast.found /\ hlast.v = hlast.prev.v)

\* C6 as amended: the same, for names n without leading or trailing white
\* space (Set stores the trimmed name, Get looks up the name as given).
C6_GetAfterSet ==
    ( /\ hlast.op = "get"
      /\ hlast.prev.op = "set"
      /\ hlast.prev.k # <<>>
      /\ TrimSpace(hlast.prev.k) = hlast.prev.k
      /\ hlast.prev.v # <<>>
      /\ EqualFold(hlast.k, hlast.prev.k) )
    => (hlast.found /\ hlast.v = hlast.prev.v)

\* C6 witness: a Get under another casing than the Set before it, which
\* overwrote an older value of that name, has found the new value.
C6_Witness ==
    /\ hlast.op = "get"
    /\ hlast.prev.op = "set"
    /\ hlast.prev.v # <<>>
    /\ TrimSpace(hlast.prev.k) = hlast.prev.k
    /\ hlast.k # hlast.prev.k
    /\ EqualFold(hlast.k, hlast.prev.k)
    /\ hlast.found
    /\ hlast.v = hlast.prev.v
    /\ Cardinality(DOMAIN h) >= 2

\* C7 as stated: Set(name, "") with a non-empty name removes the entry of
\* that name, so a Get of any casing of the name right after it finds nothing.
C7_DeleteRemoves ==
    ( /\ hlast.op = "get"
      /\ hlast.prev.op = "set"
      /\ hlast.prev.k # <<>>
      /\ hlast.prev.v = <<>>
      /\ EqualFold(hlast.k, hlast.prev.k) )
    => ~hlast.found

\* C8 as stated: Set with an empty name leaves the map unchanged, and
\* Get("") returns the empty value and found = false.
C8_EmptyName ==
    /\ (hlast.op = "set" /\ hlast.k = <<>>) => h = hlast.before
    /\ (hlast.op = "get" /\ hlast.k = <<>>) => (~hlast.found /\ hlast.v = <<>>)


----------------------------------------------------------------------------
(* Request Decoder specification: From applied to each buffer of a bounded *)
(* family: a request line, up to MaxHeaderLines header lines, and a tail.  *)

MaxHeaderLines == 2

DecodeRequestLines ==
    { <<>>, <<"G", "E", "T">>, <<"G", "E", "T", " ", "/">>, <<"G", "E", "T", " ", "/", " ", "H", "T", "T", "P", "/", "1", ".", "1">>, <<"P", "O", "S", "T", " ", "/", "f", " ", "H", "T", "T", "P", "/", "1", ".", "0">>,
      <<"G", "E", "T", " ", " ", "H", "T", "T", "P", "/", "1", ".", "1">> }

DecodeHeaderLines ==
    { <<>>, <<"A", ":", " ", "x">>, <<"a", ":", "y">>, <<"B", ":", " ", "p", ":", "q">>, <<"I", "n", "v", "a", "l", "i", "d", "H", "e", "a", "d", "e", "r">>, <<"C", ":">>, <<"a", ":">> }

\* What follows the header lines: nothing, the blank line, or the blank
\* line and a body.
DecodeTails == { <<>>, CRLF, CRLF \o <<"h", "i">> }

RECURSIVE JoinLines(_)
JoinLines(ls) ==
    IF ls = <<>> THEN <<>> ELSE Head(ls) \o CRLF \o JoinLines(Tail(ls))

HeaderSections ==
    UNION { [1..n -> DecodeHeaderLines] : n \in 0..MaxHeaderLines }

DecodeInputs ==
    DecodeRequestLines
    \cup { rl \o CRLF \o JoinLines(hs) \o t :
             rl \in DecodeRequestLines, hs \in HeaderSections, t \in DecodeTails }

DInit ==
    /\ dbuf \in DecodeInputs
    /\ dres = NotDecoded
    /\ HIdle
    /\ RIdle
    /\ SIdle
    /\ CIdle

\* req := &Request{}; err := req.From(dbuf)
Decode ==
    /\ dres.res = "none"
    /\ dres' \in From(dbuf)
    /\ UNCHANGED <<dbuf, DOthers>>

DNext == Decode

SpecDecode == DInit /\ [][DNext]_vars

\* The first line of the buffer has fewer than three space-separated tokens.
FewerThanThreeTokens(b) == Len(Split(Split(b, CRLF)[1], <<" ">>)) < 3

\* C9 as stated: decoding a buffer whose first line has fewer than three
\* space-separated tokens returns a decode error as an error value.
C9_MalformedRequestLine ==
    (dres.res # "none" /\ FewerThanThreeTokens(dbuf)) => dres.res = "error"

\* The first line of the buffer is three non-empty tokens, single spaces
\* between them.
ValidRequestLine(b) ==
    LET segs == Split(Split(b, CRLF)[1], <<" ">>)
    IN  Len(segs) = 3 /\ \A i \in 1..3 : TrimSpace(segs[i]) # <<>>

\* The buffer has a valid request line and, among the lines before its last,
\* a non-empty line without a colon.
HasColonlessHeaderLine(b) ==
    LET parts == Split(b, CRLF)
    IN  /\ ValidRequestLine(b)
        /\ \E i \in 2..(Len(parts) - 1) :
              parts[i] # <<>> /\ Index(parts[i], <<":">>) = 0

\* C10 as stated: decoding a buffer with a valid request line and a
\* non-empty header line without a colon returns a decode error as an error
\* value, not a panic.
C10_MalformedHeaderLine ==
    (dres.res # "none" /\ HasColonlessHeaderLine(dbuf)) => dres.res = "error"

\* The buffers of TestRequest_From_EdgeCases that the test expects to decode:
\* no headers, extra empty lines, and a header line without a colon.
EdgeCaseInputs ==
    { <<"G", "E", "T", " ", "/", " ", "H", "T", "T", "P", "/", "1", ".", "1", "\r", "\n", "\r", "\n">>,
      <<"G", "E", "T", " ", "/", " ", "H", "T", "T", "P", "/", "1", ".", "1", "\r", "\n", "\r", "\n", "\r", "\n", "\r", "\n">>,
      <<"G", "E", "T", " ", "/", " ", "H", "T", "T", "P", "/", "1", ".", "1", "\r", "\n", "I", "n", "v", "a", "l", "i", "d", "H", "e", "a", "d", "e", "r", "\r", "\n", "\r", "\n">> }

\* C11 as stated: decoding a request with no headers, with extra trailing
\* empty lines, or with the colon-less header line "InvalidHeader" returns
\* no error (the colon-less line is skipped) and the request line is decoded.
C11_EdgeCasesDecode ==
    (dres.res # "none" /\ dbuf \in EdgeCaseInputs) =>
        /\ dres.res = "ok"
        /\ dres.method = <<"G", "E", "T">>
        /\ dres.target = <<"/">>
        /\ dres.version = <<"H", "T", "T", "P", "/", "1", ".", "1">>

\* C12 as stated: whenever From returns without error, the decoded method,
\* target and version are all non-empty.
C12_RequestLineNonEmpty ==
    dres.res = "ok" =>
        /\ dres.method # <<>>
        /\ dres.target # <<>>
        /\ dres.version # <<>>

----------------------------------------------------------------------------
(* Router specification: up to MaxRoutes Register calls at startup, each   *)
(* with a handler of its own, then Route calls for any request.            *)

MaxRoutes == 3

RouteMethods == { <<"G", "E", "T">>, <<"P", "O", "S", "T">> }

RoutePrefixes == { <<"/">>, <<"/", "a", "p", "i">>, <<"/", "a", "p", "i", "/", "s", "p", "e", "c", "i", "f", "i", "c">> }

RequestMethods == { <<"G", "E", "T">>, <<"P", "U", "T">> }

RequestTargets == { <<>>, <<"*">>, <<"/", "a", "p">>, <<"/", "a", "p", "i">>, <<"/", "a", "p", "i", "/", "s", "p", "e", "c", "i", "f", "i", "c", "/", "x">> }

RInit == RIdle /\ HIdle /\ DIdle /\ SIdle /\ CIdle

\* The n-th test handler, by name.
TestHandler(n) == <<"h", "a", "n", "d", "l", "e", "r">> \o Itoa(n)

\* s.Register(method, prefix, handler), the handler being the n-th test
\* handler for the n-th call. The route list is built before any request is
\* routed.
RRegister(method, prefix) ==
    /\ rlast.op = "none"
    /\ Len(routes) < MaxRoutes
    /\ routes' = Register(routes, method, prefix, TestHandler(Len(routes) + 1))
    /\ UNCHANGED <<rlast, ROthers>>

\* What the handler hd writes to w when invoked: a test handler writes its
\* name, handleNotFound writes its response.
TestHandlerWrites(hd) ==
    IF hd = NotFoundHandler THEN handleNotFound ELSE {hd}

\* err := s.Route(ctx, req, w), for a request of the given method and target.
\* hres is the error value the invoked handler returns (for handleNotFound,
\* that of its write).
RRoute(method, target, hres) ==
    LET invoked == Route(routes, method, target)
    IN  /\ \E ws \in [1..Len(invoked) -> UNION { TestHandlerWrites(invoked[i]) :
                                                  i \in 1..Len(invoked) }] :
              /\ \A i \in 1..Len(invoked) : ws[i] \in TestHandlerWrites(invoked[i])
              /\ rlast' = [op |-> "route", method |-> method, target |-> target,
                           invoked |-> invoked, hres |-> hres,
                           result |-> RouteResult(hres),
                           writes |-> ws]
        /\ UNCHANGED <<routes, ROthers>>

RNext ==
    \/ \E m \in RouteMethods, p \in RoutePrefixes : RRegister(m, p)
    \/ \E m \in RequestMethods, t \in RequestTargets, hres \in {"nil", "err"} :
          RRoute(m, t, hres)

SpecRouter == RInit /\ [][RNext]_vars

\* The registered routes whose method is the request's and whose prefix is a
\* prefix of the request's target, by their place in the list.
Matching ==
    { i \in 1..Len(routes) :
        /\ routes[i].method = rlast.method
        /\ Len(routes[i].prefix) <= Len(rlast.target)
        /\ \A j \in 1..Len(routes[i].prefix) : routes[i].prefix[j] = rlast.target[j] }

\* C3: when some route matches, Route invokes exactly one handler, that of
\* the earliest registered matching route, and returns that handler's result.
C3_FirstMatchWins ==
    (rlast.op = "route" /\ Matching # {}) =>
        LET first == CHOOSE i \in Matching : \A j \in Matching : i <= j
        IN  /\ rlast.invoked = <<routes[first].handler>>
            /\ rlast.result = rlast.hres

\* C3 witness: a request that two routes match, the earlier of them after a
\* route that does not match, whose handler returned an error.
C3_Witness ==
    /\ rlast.op = "route"
    /\ Cardinality(Matching) >= 2
    /\ 1 \notin Matching
    /\ rlast.result = "err"
    /\ Len(rlast.invoked) = 1

\* C4: when no route matches, no registered handler is invoked and the
\* not-found handler writes one response, of status 404 and without a body.
C4_RouterMiss ==
    (rlast.op = "route" /\ Matching = {}) =>
        /\ rlast.invoked = <<NotFoundHandler>>
        /\ Len(rlast.writes) = 1
        /\ HasPrefix(rlast.writes[1], <<"H", "T", "T", "P", "/", "1", ".", "1", " ", "4", "0", "4", " ", "N", "o", "t", " ", "F", "o", "u", "n", "d", "\r", "\n">>)
        /\ Index(rlast.writes[1], CRLF \o CRLF) = 0
        /\ Index(rlast.writes[1], HeaderContentLength) = 0
        /\ rlast.writes[1][Len(rlast.writes[1])] = "\n"

\* C4 witness: a miss although one route has the request's method and a
\* prefix that the target is a proper prefix of, and another route has a
\* prefix of the target under another method.
C4_Witness ==
    /\ rlast.op = "route"
    /\ Matching = {}
    /\ \E i \in 1..Len(routes) :
          /\ routes[i].method = rlast.method
          /\ routes[i].prefix # rlast.target
          /\ HasPrefix(routes[i].prefix, rlast.target)
    /\ \E i \in 1..Len(routes) :
          /\ routes[i].method # rlast.method
          /\ HasPrefix(rlast.target, routes[i].prefix)
    /\ rlast.invoked = <<NotFoundHandler>>


----------------------------------------------------------------------------
(* Server specification: the Listener Loop (server.Start) and one          *)
(* Connection Session (server.handleConn) for each accepted connection.    *)
(* The routes are those main registers before Start.                       *)

\* What a client may send for one conn.Read.
SessionInputs ==
    { <<"G", "E", "T", " ", "/", " ", "H", "T", "T", "P", "/", "1", ".", "1", "\r", "\n", "\r", "\n">>,
      <<"G", "E", "T", " ", "/", " ", "H", "T", "T", "P", "/", "1", ".", "1", "\r", "\n", "C", "o", "n", "n", "e", "c", "t", "i", "o", "n", ":", " ", "C", "l", "o", "s", "e", "\r", "\n", "\r", "\n">>,
      <<"G", "E", "T", " ", "/", " ", "H", "T", "T", "P", "/", "1", ".", "0", "\r", "\n", "\r", "\n">>,
      <<"G", "E", "T", " ", "/", " ", "H", "T", "T", "P", "/", "1", ".", "0", "\r", "\n", "c", "o", "n", "n", "e", "c", "t", "i", "o", "n", ":", " ", "K", "e", "e", "p", "-", "A", "l", "i", "v", "e", "\r", "\n", "\r", "\n">>,
      <<"P", "U", "T", " ", "/", "x", " ", "H", "T", "T", "P", "/", "1", ".", "1", "\r", "\n", "C", "o", "n", "n", "e", "c", "t", "i", "o", "n", ":", " ", "k", "e", "e", "p", "-", "a", "l", "i", "v", "e", "\r", "\n", "\r", "\n">>,
      <<"G", "E", "T", " ", "/", "\r", "\n", "\r", "\n">>,
      <<"G", "E", "T", " ", "/", " ", "H", "T", "T", "P", "/", "1", ".", "1", "\r", "\n", "I", "n", "v", "a", "l", "i", "d", "H", "e", "a", "d", "e", "r", "\r", "\n", "\r", "\n">> }

\* What a client may send for one conn.Read in the program specification:
\* a request, a malformed one, two requests in one read, and one request
\* in two reads.
MainInputs ==
    { <<"G", "E", "T", " ", "/", " ", "H", "T", "T", "P", "/", "1", ".", "1", "\r", "\n", "\r", "\n">>,
      <<"G", "E", "T", " ", "/", "\r", "\n", "\r", "\n">>,
      <<"G", "E", "T", " ", "/", " ", "H", "T", "T", "P", "/", "1", ".", "1", "\r", "\n", "H", "o", "s", "t", ":", " ", "x", "\r", "\n", "\r", "\n", "G", "E", "T", " ", "/", " ", "H", "T", "T", "P", "/", "1", ".", "1", "\r", "\n", "H", "o", "s", "t", ":", " ", "x", "\r", "\n", "\r", "\n">>,
      <<"G", "E", "T", " ", "/", " ", "H", "T", "T", "P", "/", "1", ".", "1", "\r", "\n", "H", "o">>,
      <<"s", "t", ":", " ", "x", "\r", "\n", "\r", "\n">> }

\* From on each of them (evaluated once).
DecodedInputs == [b \in SessionInputs \cup MainInputs |-> From(b)]

\* What os.ReadFile may return to filesGet.
FileReads == { [kind |-> "notexist", data |-> <<>>] }

SInit ==
    /\ SIdle
    /\ HIdle
    /\ DIdle
    /\ CIdle
    /\ routes = MainRoutes
    /\ rlast = NoRouteCall

\* The context passed to Start is cancelled.
CancelCtx ==
    /\ ~crashed
    /\ ~ctxDone
    /\ ctxDone' = TRUE
    /\ UNCHANGED <<lpc, crashed, pc, sock, buf, req, running, unanswered, resp, ended, SOthers>>

\* Start, top of the loop: return ctx.Err() once the context is done,
\* otherwise set the accept deadline and call Accept.
LSelect ==
    /\ ~crashed
    /\ lpc \in {"select", "logerr"}
    /\ lpc' = IF ctxDone THEN "returned" ELSE "accept"
    /\ UNCHANGED <<ctxDone, crashed, pc, sock, buf, req, running, unanswered, resp, ended, SOthers>>

\* Accept returns the next connection and the loop runs its session itself,
\* without the go statement (a faulty variant).
LAcceptInline(c) ==
    /\ ~crashed
    /\ lpc = "accept"
    /\ pc[c] = "idle"
    /\ \A d \in Conns : pc[d] = "idle" => c <= d
    /\ pc' = [pc EXCEPT ![c] = "read"]
    /\ sock' = [sock EXCEPT ![c] = "open"]
    /\ lpc' = "insession"
    /\ UNCHANGED <<ctxDone, crashed, buf, req, running, unanswered, resp, ended, SOthers>>

\* Accept returns the next connection: its session is started as a
\* goroutine and the loop goes on.
LAccept(c) ==
    /\ ~crashed
    /\ lpc = "accept"
    /\ pc[c] = "idle"
    /\ \A d \in Conns : pc[d] = "idle" => c <= d
    /\ pc' = [pc EXCEPT ![c] = "read"]
    /\ sock' = [sock EXCEPT ![c] = "open"]
    /\ lpc' = "select"
    /\ UNCHANGED <<ctxDone, crashed, buf, req, running, unanswered, resp, ended, SOthers>>

\* Accept returns a timeout: the loop goes on.
LAcceptTimeout ==
    /\ ~crashed
    /\ lpc = "accept"
    /\ lpc' = "select"
    /\ UNCHANGED <<ctxDone, crashed, pc, sock, buf, req, running, unanswered, resp, ended, SOthers>>

\* Accept returns another error: Start returns ctx.Err() whatever the
\* context (a faulty variant).
LAcceptErrorFatal ==
    /\ ~crashed
    /\ lpc = "accept"
    /\ lpc' = "returned"
    /\ UNCHANGED <<ctxDone, crashed, pc, sock, buf, req, running, unanswered, resp, ended, SOthers>>

\* Accept returns another error: Start returns ctx.Err() if the context is
\* done, otherwise it logs the error and the loop goes on.
LAcceptError ==
    /\ ~crashed
    /\ lpc = "accept"
    /\ lpc' = IF ctxDone THEN "returned" ELSE "logerr"
    /\ UNCHANGED <<ctxDone, crashed, pc, sock, buf, req, running, unanswered, resp, ended, SOthers>>

\* Where handleConn is once it has called s.Route: in the call, until the
\* handler returns.
PcAfterDispatchAsync == "decide"

PcAfterDispatch == "handler"

\* A socket in state s once a panic has unwound its session (the deferred
\* conn.Close() runs) and ended the process (which closes every socket).
SockAfterPanicOpen(s) == s

SockAfterPanic(s) == IF s = "open" THEN "closed" ELSE s

\* handleConn keeping the bytes of the reads before and decoding them
\* together with those of this read (a faulty variant).
SReadCarry(c, b) ==
    /\ ~crashed
    /\ pc[c] = "read"
    /\ buf' = [buf EXCEPT ![c] = @ \o b]
    /\ \E r \in From(buf[c] \o b) :
          /\ req' = [req EXCEPT ![c] = r]
          /\ IF r.res = "panic"
             THEN /\ crashed' = TRUE
                  /\ pc' = [d \in Conns |->
                               IF pc[d] \in {"idle", "closed"} THEN pc[d] ELSE "dead"]
                  /\ sock' = [d \in Conns |-> SockAfterPanic(sock[d])]
                  /\ UNCHANGED <<running, unanswered>>
             ELSE /\ pc' = [pc EXCEPT ![c] = PcAfterDispatch]
                  /\ running' = [running EXCEPT
                                    ![c] = @ \cup {Route(routes, r.method, r.target)[1]}]
                  /\ unanswered' = [unanswered EXCEPT ![c] = @ + 1]
                  /\ UNCHANGED <<crashed, sock>>
    /\ UNCHANGED <<lpc, ctxDone, resp, ended, SOthers>>

\* handleConn, from the top of the loop to the call of the handler: the
\* deadline is set, conn.Read returns the bytes b, From decodes them and
\* Route finds the handler. A panic in From ends the process: every
\* goroutine dies and every socket is closed.
SRead(c, b) ==
    /\ ~crashed
    /\ pc[c] = "read"
    /\ buf' = [buf EXCEPT ![c] = b]
    /\ \E r \in DecodedInputs[b] :
          /\ req' = [req EXCEPT ![c] = r]
          /\ IF r.res = "panic"
             THEN /\ crashed' = TRUE
                  /\ pc' = [d \in Conns |->
                               IF pc[d] \in {"idle", "closed"} THEN pc[d] ELSE "dead"]
                  /\ sock' = [d \in Conns |-> SockAfterPanic(sock[d])]
                  /\ UNCHANGED <<running, unanswered>>
             ELSE /\ pc' = [pc EXCEPT ![c] = PcAfterDispatch]
                  /\ running' = [running EXCEPT
                                    ![c] = @ \cup {Route(routes, r.method, r.target)[1]}]
                  /\ unanswered' = [unanswered EXCEPT ![c] = @ + 1]
                  /\ UNCHANGED <<crashed, sock>>
    /\ UNCHANGED <<lpc, ctxDone, resp, ended, SOthers>>

\* conn.Read returns a timeout: handleConn leaves the loop, closes the
\* connection and returns nil.
SReadTimeout(c) ==
    /\ ~crashed
    /\ pc[c] = "read"
    /\ pc' = [pc EXCEPT ![c] = "closed"]
    /\ sock' = [sock EXCEPT ![c] = "closed"]
    /\ ended' = [ended EXCEPT ![c] = "timeout"]
    /\ buf' = [buf EXCEPT ![c] = <<>>]
    /\ req' = [req EXCEPT ![c] = NotDecoded]
    /\ UNCHANGED <<lpc, ctxDone, crashed, running, unanswered, resp, SOthers>>

\* conn.Read returns another error: handleConn closes the connection and
\* returns the error.
SReadError(c) ==
    /\ ~crashed
    /\ pc[c] = "read"
    /\ pc' = [pc EXCEPT ![c] = "closed"]
    /\ sock' = [sock EXCEPT ![c] = "closed"]
    /\ ended' = [ended EXCEPT ![c] = "readerr"]
    /\ buf' = [buf EXCEPT ![c] = <<>>]
    /\ req' = [req EXCEPT ![c] = NotDecoded]
    /\ UNCHANGED <<lpc, ctxDone, crashed, running, unanswered, resp, SOthers>>

\* The handler hd runs to its end: it hands its response to conn.Write. If
\* the write succeeds the handler returns nil and handleConn goes on to the
\* keep-alive decision; if it fails the handler returns the error and
\* handleConn closes the connection and returns it.
SHandle(c, hd, fs, wok) ==
    /\ ~crashed
    /\ hd \in running[c]
    /\ running' = [running EXCEPT ![c] = @ \ {hd}]
    /\ IF wok
       THEN /\ \E w \in HandlerWrites(hd, req[c], fs) : resp' = [resp EXCEPT ![c] = w]
            /\ unanswered' = [unanswered EXCEPT ![c] = @ - 1]
            /\ pc' = [pc EXCEPT ![c] = IF @ = "handler" THEN "decide" ELSE @]
            /\ UNCHANGED <<sock, ended, buf, req>>
       ELSE /\ pc' = [pc EXCEPT ![c] = "closed"]
            /\ sock' = [sock EXCEPT ![c] = "closed"]
            /\ ended' = [ended EXCEPT ![c] = "handlererr"]
            /\ buf' = [buf EXCEPT ![c] = <<>>]
            /\ req' = [req EXCEPT ![c] = NotDecoded]
            /\ UNCHANGED <<resp, unanswered>>
    /\ UNCHANGED <<lpc, ctxDone, crashed, SOthers>>

\* The keep-alive decision of handleConn for the request r.
KeepAliveExactCase(r, connectionHeader) ==
    IF r.version = <<"H", "T", "T", "P", "/", "1", ".", "1">>
    THEN connectionHeader # ConnectionClose
    ELSE connectionHeader = ConnectionKeepAlive

\* The decision always positive (a faulty variant).
KeepAliveAlways(r, connectionHeader) == TRUE

KeepAlive(r, connectionHeader) ==
    IF r.version = <<"H", "T", "T", "P", "/", "1", ".", "1">>
    THEN ~EqualFold(connectionHeader, ConnectionClose)
    ELSE EqualFold(connectionHeader, ConnectionKeepAlive)

\* handleConn after the handler has returned nil: it looks the Connection
\* header up (any of the outcomes of Headers.Get), then goes back to the top
\* of the loop to read again, or leaves the loop, closes the connection and
\* returns nil.  conn.SetDeadline at the top of the loop fails only on a
\* connection this process has already closed; the session is the only
\* closer of its connection, so that branch is not taken here.
SDecide(c) ==
    /\ ~crashed
    /\ pc[c] = "decide"
    /\ \E g \in HeadersGet(req[c].headers, HeaderConnection) :
       IF KeepAlive(req[c], g.value)
       THEN /\ pc' = [pc EXCEPT ![c] = "read"]
            /\ UNCHANGED <<sock, ended, buf, req>>
       ELSE /\ pc' = [pc EXCEPT ![c] = "closed"]
            /\ sock' = [sock EXCEPT ![c] = "closed"]
            /\ ended' = [ended EXCEPT ![c] = "close"]
            /\ buf' = [buf EXCEPT ![c] = <<>>]
            /\ req' = [req EXCEPT ![c] = NotDecoded]
    /\ UNCHANGED <<lpc, ctxDone, crashed, running, unanswered, resp, SOthers>>

Next ==
    \/ CancelCtx
    \/ LSelect
    \/ \E c \in Conns : LAccept(c)
    \/ LAcceptTimeout
    \/ LAcceptError
    \/ \E c \in Conns, b \in SessionInputs : SRead(c, b)
    \/ \E c \in Conns : SReadTimeout(c)
    \/ \E c \in Conns : SReadError(c)
    \/ \E c \in Conns, hd \in {rt.handler : rt \in {MainRoutes[i] : i \in 1..Len(MainRoutes)}}
                            \cup {NotFoundHandler},
          fs \in FileReads, wok \in BOOLEAN : SHandle(c, hd, fs, wok)
    \/ \E c \in Conns : SDecide(c)

Spec == SInit /\ [][Next]_vars

\* A string with its letters lower-cased.
Lowered(s) == [i \in 1..Len(s) |-> ToLower(s[i])]

\* The request r carries a Connection header whose value is, in any letter
\* case, val (given in lower case).
ConnectionIs(r, val) ==
    \E k \in DOMAIN r.headers :
        Lowered(k) = <<"c", "o", "n", "n", "e", "c", "t", "i", "o", "n">> /\ Lowered(r.headers[k]) = val

\* The keep-alive rule of the claim: HTTP/1.1 without Connection: close, or
\* any other version with Connection: keep-alive.
StaysOpen(r) ==
    \/ r.version = <<"H", "T", "T", "P", "/", "1", ".", "1">> /\ ~ConnectionIs(r, <<"c", "l", "o", "s", "e">>)
    \/ r.version # <<"H", "T", "T", "P", "/", "1", ".", "1">> /\ ConnectionIs(r, <<"k", "e", "e", "p", "-", "a", "l", "i", "v", "e">>)

\* C1: when a session leaves the keep-alive decision (its request decoded,
\* its handler returned without error), it is back at reading on its open
\* socket if and only if the request is HTTP/1.1 without Connection: close
\* or of another version with Connection: keep-alive; otherwise it has
\* closed the socket and returned.
C1_KeepAliveDecision ==
    [][ \A c \in Conns :
          (pc[c] = "decide" /\ pc'[c] # "decide" /\ ~crashed') =>
              IF StaysOpen(req[c])
              THEN pc'[c] = "read" /\ sock'[c] = "open"
              ELSE pc'[c] = "closed" /\ sock'[c] = "closed" /\ ended'[c] = "close"
      ]_vars

\* C1 witness: one session is reading again after an HTTP/1.1 request
\* without a Connection header, which it answered, and another has closed
\* its socket on the decision.
C1_Witness ==
    \E c \in Conns, d \in Conns :
        /\ pc[c] = "read"
        /\ sock[c] = "open"
        /\ req[c].version = <<"H", "T", "T", "P", "/", "1", ".", "1">>
        /\ DOMAIN req[c].headers = {}
        /\ resp[c] # <<>>
        /\ pc[d] = "closed"
        /\ sock[d] = "closed"
        /\ ended[d] = "close"

\* C2: a connection never has more than one handler running or more than
\* one request unanswered, and while its session is in conn.Read no handler
\* runs for it and every request read on it has been answered.
C2_SequentialExchanges ==
    \A c \in Conns :
        /\ Cardinality(running[c]) <= 1
        /\ unanswered[c] <= 1
        /\ (pc[c] = "read" /\ ~crashed) => (running[c] = {} /\ unanswered[c] = 0)
        /\ running[c] # {} => pc[c] \in {"handler", "dead"}

\* C2 witness: a session that has answered one request is in the handler of
\* its next request while another connection's handler runs too.
C2_Witness ==
    \E c \in Conns, d \in Conns :
        /\ c # d
        /\ pc[c] = "handler"
        /\ resp[c] # <<>>
        /\ unanswered[c] = 1
        /\ pc[d] = "handler"
        /\ running[d] # {}


----------------------------------------------------------------------------
(* Wire round trip specification: a valid request is written in the wire   *)
(* format `METHOD SP TARGET SP VERSION CRLF (Name: value CRLF)* CRLF body` *)
(* as the tests write their inputs, and the bytes are decoded by From.     *)

\* The most headers a written request carries.
MaxWireHeaders == 2

WireMethods == { <<"G", "E", "T">>, <<"P", "O", "S", "T">> }

WireTargets == { <<"/">>, <<"/", "e", "c", "h", "o", "/", "h", "e", "l", "l", "o">> }

WireVersions == { <<"H", "T", "T", "P", "/", "1", ".", "1">> }

\* Header names, no two of them equal under case folding, and values
\* without surrounding white space, CR or LF (one holding colons).
WireNames == { <<"H", "o", "s", "t">>, <<"a", "-", "b">>, <<"X">> }

WireValues == { <<"x">>, <<"t", "o", "k", "e", "n", ":", "w", "i", "t", "h", ":", "c", "o", "l", "o", "n", "s">> }

\* Bodies: none, one line, and bodies of several lines.
WireBodies == { <<>>, <<"h", "i">>, <<"x", "\r", "\n", "y">>, <<"a", "-", "b", ":", " ", "y", "\r", "\n", "z">> }

WireHeaderMaps ==
    UNION { [ns -> WireValues] :
              ns \in { s \in SUBSET WireNames : Cardinality(s) <= MaxWireHeaders } }

WireRequests ==
    { [op |-> "wire", method |-> m, target |-> t, version |-> v,
       headers |-> hs, body |-> b] :
        m \in WireMethods, t \in WireTargets, v \in WireVersions,
        hs \in WireHeaderMaps, b \in WireBodies }

\* The request r in the wire format, one byte string for each order of its
\* header lines.
WireBytes(r) ==
    { r.method \o <<" ">> \o r.target \o <<" ">> \o r.version \o CRLF
        \o HeaderLines(r.headers, ord) \o CRLF \o r.body :
        ord \in KeyOrders(DOMAIN r.headers) }

WInit ==
    /\ cin \in WireRequests
    /\ cout = NoOutcome
    /\ HIdle
    /\ DIdle
    /\ RIdle
    /\ SIdle

\* req := &Request{}; err := req.From(bytes of cin)
WDecode ==
    /\ cin.op = "wire"
    /\ cout.op = "none"
    /\ \E b \in WireBytes(cin) : \E r \in From(b) :
          cout' = [op |-> "wire", bytes |-> b, req |-> r]
    /\ UNCHANGED <<cin, COthers>>

WNext == WDecode

SpecWire == WInit /\ [][WNext]_vars

\* C13 as stated: decoding the wire bytes of a valid request returns no
\* error, yields the same method, target and version, and Get on the
\* decoded headers returns the original value for every header written.
C13_RoundTrip ==
    cout.op = "wire" =>
        /\ cout.req.res = "ok"
        /\ cout.req.method = cin.method
        /\ cout.req.target = cin.target
        /\ cout.req.version = cin.version
        /\ \A n \in DOMAIN cin.headers :
              HeadersGet(cout.req.headers, n) = {[value |-> cin.headers[n], found |-> TRUE]}


----------------------------------------------------------------------------
(* Response Encoder specification: one call of httpResponse for any status *)
(* code the handlers use, any header map built through Set, any body of a  *)
(* bounded family, on a writer that accepts the write or fails it.         *)

\* The most Set calls that build the header map of a call.
MaxResponseSets == 2

EncoderCodes == {StatusOK, StatusCreated, StatusNotFound, StatusInternalServerError}

EncoderHeaderNames == { HeaderConnection, <<"c", "o", "n", "n", "e", "c", "t", "i", "o", "n">>, HeaderContentType, HeaderContentLength }

EncoderHeaderValues == { ConnectionClose, <<"K", "e", "e", "p", "-", "A", "l", "i", "v", "e">>, <<"5">> }

\* Bodies of 0, 2 and 12 bytes, and one of two lines.
EncoderBodies == { <<>>, <<"h", "i">>, <<"H", "e", "l", "l", "o", ",", " ", "w", "o", "r", "l", "d">>, <<"a", "\r", "\n", "b">> }

\* The maps n Set calls can build from the maps ms.
RECURSIVE SetTimes(_, _)
SetTimes(ms, n) ==
    IF n = 0 THEN ms
    ELSE ms \cup SetTimes(UNION { HeadersSet(m, k, v) :
                                    m \in ms, k \in EncoderHeaderNames,
                                    v \in EncoderHeaderValues }, n - 1)

EncoderHeaderMaps == SetTimes({EmptyHeaders}, MaxResponseSets)

\* What the writer's Write returns: nil, or an error (having taken none or
\* part of the bytes).
WriteErrors == { "nil", "write failed", "short write" }

EInit ==
    /\ cin \in { [op |-> "respond", code |-> c, headers |-> m, body |-> b, writeErr |-> we] :
                   c \in EncoderCodes, m \in EncoderHeaderMaps,
                   b \in EncoderBodies, we \in WriteErrors }
    /\ cout = NoOutcome
    /\ HIdle
    /\ DIdle
    /\ RIdle
    /\ SIdle

\* err := httpResponse(w, cin.code, cin.headers, cin.body)
ERespond ==
    /\ cin.op = "respond"
    /\ cout.op = "none"
    /\ \E o \in httpResponseCall(cin.code, cin.headers, cin.body, cin.writeErr) :
          cout' = [op |-> "respond", writes |-> o.writes, err |-> o.err]
    /\ UNCHANGED <<cin, COthers>>

ENext == ERespond

SpecEncoder == EInit /\ [][ENext]_vars

\* The header lines of the response bytes b: the lines after the status
\* line and before the first empty line.
ResponseHeaderLines(b) ==
    LET lines == Split(b, CRLF)
        blank == {i \in 2..Len(lines) : lines[i] = <<>>}
        end == IF blank = {} THEN Len(lines) + 1
               ELSE CHOOSE i \in blank : \A j \in blank : i <= j
    IN  SubSeq(lines, 2, end - 1)

\* The body of the response bytes b: what follows the first empty line.
ResponseBody(b) ==
    LET i == Index(b, CRLF \o CRLF)
    IN  IF i = 0 THEN <<>> ELSE SubSeq(b, i + 4, Len(b))

\* The places among the header lines ls of the lines whose name is, in any
\* letter case, name (given in lower case).
LinesNamed(ls, name) ==
    {i \in 1..Len(ls) : Lowered(SplitN2(ls[i], <<":">>)[1]) = name}

\* C14 as stated: the bytes handed to the writer hold the line
\* "Content-Length: N", N the length of the body, when the body is not
\* empty, and no Content-Length line at all when it is empty.
C14_ContentLength ==
    cout.op = "respond" =>
        LET ls == ResponseHeaderLines(cout.writes[1])
            N == Len(cin.body)
        IN  IF N > 0
            THEN \E i \in 1..Len(ls) : ls[i] = <<"C", "o", "n", "t", "e", "n", "t", "-", "L", "e", "n", "g", "t", "h", ":", " ">> \o Itoa(N)
            ELSE LinesNamed(ls, <<"c", "o", "n", "t", "e", "n", "t", "-", "l", "e", "n", "g", "t", "h">>) = {}

\* C15: every response holds exactly one Connection header line; its value
\* is "keep-alive" when the caller's map has no Connection entry under any
\* letter case, and the caller's value otherwise.
C15_ConnectionHeader ==
    cout.op = "respond" =>
        LET ls == ResponseHeaderLines(cout.writes[1])
            at == LinesNamed(ls, <<"c", "o", "n", "n", "e", "c", "t", "i", "o", "n">>)
            given == {k \in DOMAIN cin.headers : Lowered(k) = <<"c", "o", "n", "n", "e", "c", "t", "i", "o", "n">>}
        IN  /\ Cardinality(at) = 1
            /\ \A i \in at :
                  IF given = {}
                  THEN ls[i] = <<"C", "o", "n", "n", "e", "c", "t", "i", "o", "n", ":", " ", "k", "e", "e", "p", "-", "a", "l", "i", "v", "e">>
                  ELSE \E k \in given : ls[i] = k \o <<":", " ">> \o cin.headers[k]

\* C15 witness: a response to a caller who set Content-Type only, with a
\* body, holding the line "Connection: keep-alive".
C15_Witness ==
    /\ cout.op = "respond"
    /\ DOMAIN cin.headers = {HeaderContentType}
    /\ cin.body # <<>>
    /\ \E i \in 1..Len(ResponseHeaderLines(cout.writes[1])) :
          ResponseHeaderLines(cout.writes[1])[i] = <<"C", "o", "n", "n", "e", "c", "t", "i", "o", "n", ":", " ", "k", "e", "e", "p", "-", "a", "l", "i", "v", "e">>

\* C16: httpResponse makes exactly one Write call, with the status line,
\* the headers and the body together; it returns nil when the write
\* succeeded and an error wrapping the writer's when it failed.
C16_OneWrite ==
    cout.op = "respond" =>
        /\ Len(cout.writes) = 1
        /\ HasPrefix(cout.writes[1], <<"H", "T", "T", "P", "/", "1", ".", "1", " ">> \o Itoa(cin.code))
        /\ ResponseBody(cout.writes[1]) = cin.body
        /\ cout.err.nil <=> cin.writeErr = "nil"
        /\ cout.err.wraps = cin.writeErr

\* C16 witness: a response with a body whose write failed part way.
C16_Witness ==
    /\ cout.op = "respond"
    /\ cin.writeErr = "short write"
    /\ cin.body # <<>>
    /\ ~cout.err.nil


----------------------------------------------------------------------------
(* Negotiator specification: encoderFromRequest on a request whose         *)
(* Accept-Encoding header, if it has one, lists up to MaxEncodingTokens    *)
(* tokens.                                                                 *)

MaxEncodingTokens == 2

\* Tokens as a client may list them: gzip bare and with white space around
\* it, other codings, gzip with a quality value, in upper case, and inside
\* a longer word.
EncodingTokens ==
    { <<"g", "z", "i", "p">>, <<" ", "g", "z", "i", "p">>, <<"g", "z", "i", "p", " ">>, <<"d", "e", "f", "l", "a", "t", "e">>, <<" ", "b", "r">>, <<"i", "d", "e", "n", "t", "i", "t", "y">>,
      <<"g", "z", "i", "p", ";", "q", "=", "0", ".", "8">>, <<"G", "Z", "I", "P">>, <<"x", "g", "z", "i", "p">> }

EncodingLists ==
    UNION { [1..n -> EncodingTokens] : n \in 1..MaxEncodingTokens }

\* The tokens ts joined by commas.
RECURSIVE JoinTokens(_)
JoinTokens(ts) ==
    IF Len(ts) = 1 THEN ts[1] ELSE ts[1] \o <<",">> \o JoinTokens(Tail(ts))

\* The names the header is sent under; the last is another header.
EncodingHeaderNames == { HeaderAcceptEncoding, <<"a", "c", "c", "e", "p", "t", "-", "e", "n", "c", "o", "d", "i", "n", "g">>, HeaderUserAgent }

NInit ==
    /\ \E ts \in EncodingLists \cup {<<>>}, n \in EncodingHeaderNames :
          \E m \in (IF ts = <<>> THEN {EmptyHeaders}
                     ELSE HeadersSet(EmptyHeaders, n, JoinTokens(ts))) :
             cin = [op |-> "negotiate", name |-> n, tokens |-> ts, headers |-> m]
    /\ cout = NoOutcome
    /\ HIdle
    /\ DIdle
    /\ RIdle
    /\ SIdle

\* encoder := encoderFromRequest(req)
NNegotiate ==
    /\ cin.op = "negotiate"
    /\ cout.op = "none"
    /\ cout' = [op |-> "negotiate", gzip |-> encoderFromRequest(cin)]
    /\ UNCHANGED <<cin, COthers>>

NNext == NNegotiate

SpecNegotiator == NInit /\ [][NNext]_vars

\* C17: the negotiator returns the gzip codec if and only if the request
\* has an Accept-Encoding header (under any letter case) one of whose
\* comma-separated tokens is, once trimmed, exactly "gzip"; otherwise it
\* returns no encoder.
C17_Negotiation ==
    cout.op = "negotiate" =>
        (cout.gzip <=>
            /\ Lowered(cin.name) = <<"a", "c", "c", "e", "p", "t", "-", "e", "n", "c", "o", "d", "i", "n", "g">>
            /\ \E i \in 1..Len(cin.tokens) :
                  cin.tokens[i] \in { <<"g", "z", "i", "p">>, <<" ", "g", "z", "i", "p">>, <<"g", "z", "i", "p", " ">> })

\* C17 witness: gzip selected from "gzip;q=0.8, gzip" sent under a
\* lower-case header name.
C17_Witness ==
    /\ cout.op = "negotiate"
    /\ cout.gzip
    /\ cin.name = <<"a", "c", "c", "e", "p", "t", "-", "e", "n", "c", "o", "d", "i", "n", "g">>
    /\ cin.tokens = << <<"g", "z", "i", "p", ";", "q", "=", "0", ".", "8">>, <<" ", "g", "z", "i", "p">> >>


----------------------------------------------------------------------------
(* Codec specification: Encode on any byte sequence of up to MaxCodecLen   *)
(* bytes, then Decode on what it returned.                                 *)

MaxCodecLen == 3

CodecBytes == {"a", "0", "\n"}

CodecInputs == UNION { [1..n -> CodecBytes] : n \in 0..MaxCodecLen }

CInit ==
    /\ cin \in { [op |-> "codec", x |-> x] : x \in CodecInputs }
    /\ cout = NoOutcome
    /\ HIdle
    /\ DIdle
    /\ RIdle
    /\ SIdle

\* encoded, err := NewGzipEncoder().Encode(x); the gzip writer writes into
\* a bytes.Buffer, which takes every write, so err is nil.
CEncode ==
    /\ cin.op = "codec"
    /\ cout.op = "none"
    /\ cout' = [op |-> "encoded", enc |-> gzipEncode(cin.x),
                dec |-> [ok |-> FALSE, data |-> <<>>]]
    /\ UNCHANGED <<cin, COthers>>

\* decoded, err := NewGzipEncoder().Decode(encoded)
CDecode ==
    /\ cout.op = "encoded"
    /\ cout' = [cout EXCEPT !.op = "decoded", !.dec = gzipDecode(cout.enc)]
    /\ UNCHANGED <<cin, COthers>>

CNext == CEncode \/ CDecode

SpecCodec == CInit /\ [][CNext]_vars

\* C18: for every byte sequence x, the empty one included, Decode on the
\* bytes Encode returned for x succeeds and returns x.
C18_CodecRoundTrip ==
    cout.op = "decoded" => (cout.dec.ok /\ cout.dec.data = cin.x)

\* C18 witness: the empty sequence encoded (to a member that is not empty)
\* and decoded.
C18_Witness ==
    /\ cout.op = "decoded"
    /\ cin.x = <<>>
    /\ cout.enc # <<>>
    /\ cout.dec.ok


----------------------------------------------------------------------------
(* Echo specification: echoGet called on a decoded GET request whose       *)
(* target is /echo/<s>, with or without Accept-Encoding and Connection     *)
(* headers.                                                                *)

\* What is echoed: nothing, a word, a path, and the prefix itself again.
EchoStrings == { <<>>, <<"h", "i">>, <<"a", "/", "b">>, <<"/", "e", "c", "h", "o", "/", "x">> }

\* Accept-Encoding header lines that select gzip, and that do not.
EchoGzipLines ==
    { <<"A", "c", "c", "e", "p", "t", "-", "E", "n", "c", "o", "d", "i", "n", "g", ":", " ", "g", "z", "i", "p", "\r", "\n">>, <<"a", "c", "c", "e", "p", "t", "-", "e", "n", "c", "o", "d", "i", "n", "g", ":", " ", "d", "e", "f", "l", "a", "t", "e", ",", " ", "g", "z", "i", "p", "\r", "\n">> }

EchoPlainLines ==
    { <<>>, <<"A", "c", "c", "e", "p", "t", "-", "E", "n", "c", "o", "d", "i", "n", "g", ":", " ", "d", "e", "f", "l", "a", "t", "e", "\r", "\n">>, <<"A", "c", "c", "e", "p", "t", "-", "E", "n", "c", "o", "d", "i", "n", "g", ":", " ", "g", "z", "i", "p", ";", "q", "=", "0", ".", "8", "\r", "\n">> }

EchoConnectionLines ==
    { <<>>, <<"C", "o", "n", "n", "e", "c", "t", "i", "o", "n", ":", " ", "c", "l", "o", "s", "e", "\r", "\n">>, <<"c", "o", "n", "n", "e", "c", "t", "i", "o", "n", ":", " ", "K", "e", "e", "p", "-", "A", "l", "i", "v", "e", "\r", "\n">> }

XInit ==
    /\ \E s \in EchoStrings, ae \in EchoGzipLines \cup EchoPlainLines,
          cl \in EchoConnectionLines :
          \E r \in From(<<"G", "E", "T", " ", "/", "e", "c", "h", "o", "/">> \o s \o <<" ", "H", "T", "T", "P", "/", "1", ".", "1", "\r", "\n">> \o ae \o cl \o CRLF) :
             cin = [op |-> "echo", s |-> s, gzip |-> ae \in EchoGzipLines, req |-> r]
    /\ cout = NoOutcome
    /\ HIdle
    /\ DIdle
    /\ RIdle
    /\ SIdle

\* s.echoGet(ctx, req, w), w taking the write.
XEcho ==
    /\ cin.op = "echo"
    /\ cout.op = "none"
    /\ \E w \in echoGet(cin.req) : cout' = [op |-> "echo", resp |-> w]
    /\ UNCHANGED <<cin, COthers>>

XNext == XEcho

SpecEcho == XInit /\ [][XNext]_vars

\* C19: the response of the echo handler to GET /echo/<s> has status 200
\* and Content-Type text/plain; when the request selects gzip it carries
\* Content-Encoding: gzip and a body that decodes to <s>, and otherwise it
\* carries no Content-Encoding header and its body is <s>.
C19_Echo ==
    cout.op = "echo" =>
        LET ls == ResponseHeaderLines(cout.resp)
            body == ResponseBody(cout.resp)
        IN  /\ Split(cout.resp, CRLF)[1] = <<"H", "T", "T", "P", "/", "1", ".", "1", " ", "2", "0", "0", " ", "O", "K">>
            /\ \E i \in 1..Len(ls) : ls[i] = <<"C", "o", "n", "t", "e", "n", "t", "-", "T", "y", "p", "e", ":", " ", "t", "e", "x", "t", "/", "p", "l", "a", "i", "n">>
            /\ Cardinality(LinesNamed(ls, <<"c", "o", "n", "t", "e", "n", "t", "-", "t", "y", "p", "e">>)) = 1
            /\ IF cin.gzip
               THEN /\ \E i \in 1..Len(ls) : ls[i] = <<"C", "o", "n", "t", "e", "n", "t", "-", "E", "n", "c", "o", "d", "i", "n", "g", ":", " ", "g", "z", "i", "p">>
                    /\ gzipDecode(body) = [ok |-> TRUE, data |-> cin.s]
               ELSE /\ LinesNamed(ls, <<"c", "o", "n", "t", "e", "n", "t", "-", "e", "n", "c", "o", "d", "i", "n", "g">>) = {}
                    /\ body = cin.s

\* C19 witness: "hi" echoed gzip-encoded to a request that asked for
\* "deflate, gzip" and Connection: close.
C19_Witness ==
    /\ cout.op = "echo"
    /\ cin.gzip
    /\ cin.s = <<"h", "i">>
    /\ HeadersGet(cin.req.headers, HeaderConnection) = {[value |-> ConnectionClose, found |-> TRUE]}
    /\ gzipDecode(ResponseBody(cout.resp)).ok
    /\ ResponseBody(cout.resp) # cin.s


\* The bytes b are a malformed request: too few tokens on the request line,
\* or a header line without a colon.
MalformedRequest(b) == FewerThanThreeTokens(b) \/ HasColonlessHeaderLine(b)

C21_DecodeFailureIsolated ==
    \A c \in Conns :
        (buf[c] # <<>> /\ MalformedRequest(buf[c])) =>
            /\ ~crashed
            /\ \A d \in Conns \ {c} : pc[d] # "dead"


----------------------------------------------------------------------------
(* Files specification: filesGet or filesPost called by a session on a     *)
(* decoded request for /files/<name>, for each outcome of the file system  *)
(* call and of the write to the connection, and what handleConn does with  *)
(* the handler's return.                                                   *)

\* filesPost, fs being what os.WriteFile returned: nil (kind "ok") or an
\* error with the text fs.data.
filesPost(r, fs) ==
    IF fs.kind # "ok"
    THEN RespondAll(StatusInternalServerError,
                    SetAll(NewResponseHeaders(r.headers),
                           HeaderContentType, ContentTypeTextPlain),
                    fs.data)
    ELSE httpResponse(StatusCreated, EmptyHeaders, <<>>)

\* handleConn closing the connection after every handler (a faulty variant).
AfterRouteClosing(r, ret) == {"close"}

\* What handleConn does once s.Route has returned ret for the request r: it
\* returns the error ("handlererr"), or takes the keep-alive decision and
\* reads again ("read") or closes and returns nil ("close").
AfterRoute(r, ret) ==
    IF ~ret.nil THEN {"handlererr"}
    ELSE { IF KeepAlive(r, g.value) THEN "read" ELSE "close" :
             g \in HeadersGet(r.headers, HeaderConnection) }

FileNames == { <<"m", "i", "s", "s", "i", "n", "g", ".", "t", "x", "t">>, <<"n", "o", "r", "e", "a", "d", ".", "t", "x", "t">> }

FileVersions == { <<"H", "T", "T", "P", "/", "1", ".", "1">>, <<"H", "T", "T", "P", "/", "1", ".", "0">> }

FileConnectionLines ==
    { <<>>, <<"C", "o", "n", "n", "e", "c", "t", "i", "o", "n", ":", " ", "c", "l", "o", "s", "e", "\r", "\n">>, <<"c", "o", "n", "n", "e", "c", "t", "i", "o", "n", ":", " ", "K", "e", "e", "p", "-", "A", "l", "i", "v", "e", "\r", "\n">> }

\* What os.ReadFile and os.WriteFile may return.
ReadOutcomes ==
    { [kind |-> "notexist", data |-> <<>>],
      [kind |-> "error", data |-> <<"r", "e", "a", "d", " ", "/", "t", "m", "p", "/", "n", "o", "r", "e", "a", "d", ".", "t", "x", "t", ":", " ", "p", "e", "r", "m", "i", "s", "s", "i", "o", "n", " ", "d", "e", "n", "i", "e", "d">>],
      [kind |-> "ok", data |-> <<"t", "e", "s", "t">>] }

WriteOutcomes ==
    { [kind |-> "ok", data |-> <<>>],
      [kind |-> "error", data |-> <<"o", "p", "e", "n", " ", "/", "t", "m", "p", "/", "n", "o", "r", "e", "a", "d", ".", "t", "x", "t", ":", " ", "p", "e", "r", "m", "i", "s", "s", "i", "o", "n", " ", "d", "e", "n", "i", "e", "d">>] }

FInit ==
    /\ \E m \in { <<"G", "E", "T">>, <<"P", "O", "S", "T">> }, n \in FileNames, v \in FileVersions,
          cl \in FileConnectionLines, we \in {"nil", "write failed"} :
          \E r \in From(m \o <<" ", "/", "f", "i", "l", "e", "s", "/">> \o n \o <<" ">> \o v \o CRLF \o cl \o CRLF
                          \o (IF m = <<"P", "O", "S", "T">> THEN <<"d", "a", "t", "a">> ELSE <<>>)),
             fs \in (IF m = <<"G", "E", "T">> THEN ReadOutcomes ELSE WriteOutcomes) :
             cin = [op |-> "files", req |-> r, fs |-> fs, writeErr |-> we]
    /\ cout = NoOutcome
    /\ HIdle
    /\ DIdle
    /\ RIdle
    /\ SIdle

\* err := s.filesGet(ctx, req, conn) or s.filesPost(ctx, req, conn), then
\* the rest of the loop body of handleConn.
FHandle ==
    /\ cin.op = "files"
    /\ cout.op = "none"
    /\ \E w \in (IF cin.req.method = <<"G", "E", "T">> THEN filesGet(cin.req, cin.fs)
                  ELSE filesPost(cin.req, cin.fs)) :
          LET ret == httpResponseReturn(cin.writeErr)
          IN  \E nx \in AfterRoute(cin.req, ret) :
                 cout' = [op |-> "files", resp |-> w, ret |-> ret, next |-> nx]
    /\ UNCHANGED <<cin, COthers>>

FNext == FHandle

SpecFiles == FInit /\ [][FNext]_vars

\* The file system call of the request failed: a read failed for another
\* reason than the file being absent, or a write failed.
FileCallFailed ==
    IF cin.req.method = <<"G", "E", "T">> THEN cin.fs.kind = "error" ELSE cin.fs.kind # "ok"

\* C22: when the read of a GET /files/ request fails for another reason
\* than the file being absent, or the write of a POST /files/ request
\* fails, the response has status 500, Content-Type text/plain and the
\* error text as body; the handler returns nil once the response is
\* written, and the session takes the usual keep-alive decision.
C22_HandlerFailureIs500 ==
    (cout.op = "files" /\ FileCallFailed) =>
        LET ls == ResponseHeaderLines(cout.resp)
        IN  /\ Split(cout.resp, CRLF)[1] = <<"H", "T", "T", "P", "/", "1", ".", "1", " ", "5", "0", "0", " ", "I", "n", "t", "e", "r", "n", "a", "l", " ", "S", "e", "r", "v", "e", "r", " ", "E", "r", "r", "o", "r">>
            /\ \E i \in 1..Len(ls) : ls[i] = <<"C", "o", "n", "t", "e", "n", "t", "-", "T", "y", "p", "e", ":", " ", "t", "e", "x", "t", "/", "p", "l", "a", "i", "n">>
            /\ ResponseBody(cout.resp) = cin.fs.data
            /\ cin.writeErr = "nil" =>
                  /\ cout.ret.nil
                  /\ cout.next = IF StaysOpen(cin.req) THEN "read" ELSE "close"

\* C22 witness: a failed write of a POST request answered 500, after which
\* the session reads again.
C22_Witness ==
    /\ cout.op = "files"
    /\ cin.req.method = <<"P", "O", "S", "T">>
    /\ cin.fs.kind = "error"
    /\ cout.ret.nil
    /\ cout.next = "read"
    /\ ResponseBody(cout.resp) = cin.fs.data

\* C23: a GET /files/<name> request for a file that does not exist is
\* answered with status 404, no body and Connection: keep-alive, whatever
\* headers the request carried.
C23_MissingFile ==
    (cout.op = "files" /\ cin.req.method = <<"G", "E", "T">> /\ cin.fs.kind = "notexist") =>
        cout.resp = <<"H", "T", "T", "P", "/", "1", ".", "1", " ", "4", "0", "4", " ", "N", "o", "t", " ", "F", "o", "u", "n", "d", "\r", "\n", "C", "o", "n", "n", "e", "c", "t", "i", "o", "n", ":", " ", "k", "e", "e", "p", "-", "a", "l", "i", "v", "e", "\r", "\n">>

\* C23 witness: such a request that carried Connection: close.
C23_Witness ==
    /\ cout.op = "files"
    /\ cin.req.method = <<"G", "E", "T">>
    /\ cin.fs.kind = "notexist"
    /\ ConnectionIs(cin.req, <<"c", "l", "o", "s", "e">>)
    /\ ResponseBody(cout.resp) = <<>>


\* C26: while the context is not cancelled no return of Accept ends the
\* Listener Loop (after a timeout it polls again, after another error it
\* logs and polls again), and Start returns only once the context is
\* cancelled.
C26_AcceptErrorsNotFatal ==
    [][/\ (lpc = "accept" /\ ~ctxDone) => lpc' \in {"accept", "select", "logerr"}
       /\ lpc' = "returned" => ctxDone']_vars

\* C26 witness: Accept has returned an error that is no timeout, the
\* context is not cancelled, and the loop is back at its top.
C26_Witness == lpc = "logerr" /\ ~ctxDone /\ ~crashed

----------------------------------------------------------------------------
(* Program specification: Start with the goroutine it spawns to watch for  *)
(* the shutdown, called either by main (signal.NotifyContext cancels the   *)
(* context on SIGINT or SIGTERM, signal.Notify puts the signal in the      *)
(* shutdown channel, and the process exits when Start returns) or by a     *)
(* caller that cancels the context or sends on the channel itself.         *)

MInit ==
    /\ SessionsIdle
    /\ env \in {"start", "main"}
    /\ sigCh = 0
    /\ wpc = "select"
    /\ HIdle
    /\ DIdle
    /\ CIdle
    /\ routes = MainRoutes
    /\ rlast = NoRouteCall

\* The caller of Start cancels the context.
CallerCancel ==
    /\ env = "start"
    /\ CancelCtx

\* The caller of Start sends a signal on the shutdown channel, which holds
\* one.
SendShutdown ==
    /\ env = "start"
    /\ ~crashed
    /\ sigCh = 0
    /\ sigCh' = 1
    /\ UNCHANGED <<env, wpc, svars, hvars, dvars, rvars, cvars>>

\* SIGINT or SIGTERM reaches the program: the context of
\* signal.NotifyContext is cancelled and signal.Notify puts the signal in
\* the shutdown channel (or drops it if the channel is full).
Interrupt ==
    /\ env = "main"
    /\ ~crashed
    /\ lpc # "exited"
    /\ ctxDone' = TRUE
    /\ sigCh' = 1
    /\ UNCHANGED <<env, wpc, lpc, crashed, pc, sock, buf, req, running, unanswered,
                   resp, ended, hvars, dvars, rvars, cvars>>

\* The goroutine Start spawns first: it waits for the context or for a
\* signal in the shutdown channel, logs that the server is shutting down,
\* and ends.
WatchShutdown ==
    /\ ~crashed
    /\ lpc # "exited"
    /\ wpc = "select"
    /\ \/ /\ ctxDone
          /\ wpc' = "ctx"
          /\ UNCHANGED sigCh
       \/ /\ sigCh > 0
          /\ wpc' = "signal"
          /\ sigCh' = sigCh - 1
    /\ UNCHANGED <<env, svars, hvars, dvars, rvars, cvars>>

\* main after Start has returned: it logs the error and returns, which
\* ends the process: every goroutine dies and every socket is closed.
MainExit ==
    /\ env = "main"
    /\ ~crashed
    /\ lpc = "returned"
    /\ lpc' = "exited"
    /\ pc' = [d \in Conns |-> IF pc[d] \in {"idle", "closed"} THEN pc[d] ELSE "dead"]
    /\ sock' = [d \in Conns |-> IF sock[d] = "open" THEN "closed" ELSE sock[d]]
    /\ running' = [d \in Conns |-> {}]
    /\ UNCHANGED <<ctxDone, crashed, buf, req, unanswered, resp, ended, SOthers>>

MNext ==
    \/ CallerCancel
    \/ SendShutdown
    \/ Interrupt
    \/ WatchShutdown
    \/ MainExit
    \/ LSelect
    \/ \E c \in Conns : LAccept(c)
    \/ LAcceptTimeout
    \/ LAcceptError
    \/ \E c \in Conns, b \in MainInputs : SRead(c, b)
    \/ \E c \in Conns : SReadTimeout(c)
    \/ \E c \in Conns : SReadError(c)
    \/ \E c \in Conns, fs \in FileReads, wok \in BOOLEAN : SHandle(c, <<"r", "o", "o", "t", "G", "e", "t">>, fs, wok)
    \/ \E c \in Conns : SDecide(c)

SpecMain == MInit /\ [][MNext]_vars

\* Accept returns within its deadline and the loop goes on to its next
\* statement.
FairSpecMain == SpecMain /\ WF_vars(LSelect) /\ WF_vars(LAcceptTimeout)

\* C24: once the context is cancelled, Start eventually returns.
C24_CancelStopsListener == ctxDone ~> lpc \in {"returned", "exited"}

\* C25: once the shutdown signal has been taken from the channel, no
\* connection is accepted and handed to a session.
C25_SignalStopsAccepting ==
    [][wpc = "signal" => \A c \in Conns : ~(pc[c] = "idle" /\ pc'[c] = "read")]_vars

\* C27: the socket of a session is closed only by the session, at one of
\* its own terminal conditions (or by a panic, which ends the process).
C27_ShutdownKeepsSessions ==
    [][\A c \in Conns :
          (sock[c] = "open" /\ sock'[c] = "closed") => (crashed' \/ ended'[c] # "no")]_vars

----------------------------------------------------------------------------
(* Paths specification: filesGet on a server with the directory dir, the   *)
(* file read from a disk through path.Join(s.dir, fileName).               *)

\* path.Clean on the segments of a path, acc being the segments kept so far:
\* empty segments and "." are dropped, ".." removes the segment before it,
\* is dropped at the root, and is kept at the start of a relative path.
RECURSIVE CleanSegments(_, _, _)
CleanSegments(segs, rooted, acc) ==
    IF segs = <<>> THEN acc
    ELSE LET s == Head(segs)
             rest == Tail(segs)
         IN  IF s = <<>> \/ s = <<".">> THEN CleanSegments(rest, rooted, acc)
             ELSE IF s = <<".", ".">>
             THEN IF acc # <<>> /\ acc[Len(acc)] # <<".", ".">>
                  THEN CleanSegments(rest, rooted, SubSeq(acc, 1, Len(acc) - 1))
                  ELSE IF rooted THEN CleanSegments(rest, rooted, acc)
                  ELSE CleanSegments(rest, rooted, Append(acc, s))
             ELSE CleanSegments(rest, rooted, Append(acc, s))

RECURSIVE JoinSegments(_)
JoinSegments(segs) ==
    IF segs = <<>> THEN <<>>
    ELSE IF Len(segs) = 1 THEN segs[1]
    ELSE segs[1] \o <<"/">> \o JoinSegments(Tail(segs))

\* path.Clean.
pathClean(p) ==
    IF p = <<>> THEN <<".">>
    ELSE LET rooted == p[1] = "/"
             body == JoinSegments(CleanSegments(Split(p, <<"/">>), rooted, <<>>))
         IN  IF rooted THEN <<"/">> \o body
             ELSE IF body = <<>> THEN <<".">> ELSE body

\* path.Join of two elements: empty elements are ignored, the others are
\* joined with a slash and the result is cleaned.
pathJoin(a, b) ==
    IF a = <<>> /\ b = <<>> THEN <<>>
    ELSE IF a = <<>> THEN pathClean(b)
    ELSE IF b = <<>> THEN pathClean(a)
    ELSE pathClean(a \o <<"/">> \o b)

\* The files on the disk: one in the directory main serves by default, one
\* in a directory below it (as the tests make), one in neither.
Disk ==
    { [path |-> <<"/", "t", "m", "p", "/", "t", "e", "s", "t", ".", "t", "x", "t">>, data |-> <<"H", "e", "l", "l", "o">>],
      [path |-> <<"/", "t", "m", "p", "/", "t", "/", "0", "0", "1", "/", "t", "e", "s", "t", ".", "t", "x", "t">>, data |-> <<"W", "o", "r", "l", "d">>],
      [path |-> <<"/", "e", "t", "c", "/", "p", "a", "s", "s", "w", "d">>, data |-> <<"r", "o", "o", "t">>] }

\* os.ReadFile(p): the content of the file at p; an error if p is a
\* directory or passes through a file; otherwise the file does not exist.
osReadFile(p) ==
    IF \E f \in Disk : f.path = p
    THEN [kind |-> "ok", data |-> (CHOOSE f \in Disk : f.path = p).data]
    ELSE IF \/ p = <<"/">>
            \/ \E f \in Disk : HasPrefix(f.path, p \o <<"/">>)
    THEN [kind |-> "error", data |-> <<"r", "e", "a", "d", " ">> \o p \o <<":", " ", "i", "s", " ", "a", " ", "d", "i", "r", "e", "c", "t", "o", "r", "y">>]
    ELSE IF \E f \in Disk : HasPrefix(p, f.path \o <<"/">>)
    THEN [kind |-> "error", data |-> <<"o", "p", "e", "n", " ">> \o p \o <<":", " ", "n", "o", "t", " ", "a", " ", "d", "i", "r", "e", "c", "t", "o", "r", "y">>]
    ELSE [kind |-> "notexist", data |-> <<>>]

\* The directories served.
ServedDirs == { <<"/", "t", "m", "p", "/">>, <<"/", "t", "m", "p">>, <<"/", "t", "m", "p", "/", "t", "/", "0", "0", "1">> }

\* The targets requested.
PathTargets ==
    { <<"/", "f", "i", "l", "e", "s", "/", "t", "e", "s", "t", ".", "t", "x", "t">>,
      <<"/", "f", "i", "l", "e", "s", "/", "n", "o", "n", "e", "x", "i", "s", "t", "e", "n", "t", ".", "t", "x", "t">>,
      <<"/", "f", "i", "l", "e", "s", "/", ".", ".", "/", "e", "t", "c", "/", "p", "a", "s", "s", "w", "d">>,
      <<"/", "f", "i", "l", "e", "s", "/", ".", ".", "/", ".", ".", "/", ".", ".", "/", "e", "t", "c", "/", "p", "a", "s", "s", "w", "d">>,
      <<"/", "f", "i", "l", "e", "s", "/", "t", "/", ".", ".", "/", "t", "e", "s", "t", ".", "t", "x", "t">>,
      <<"/", "f", "i", "l", "e", "s", "/", ".", "/", "t", "e", "s", "t", ".", "t", "x", "t">>,
      <<"/", "f", "i", "l", "e", "s", "/", "/", "e", "t", "c", "/", "p", "a", "s", "s", "w", "d">>,
      <<"/", "f", "i", "l", "e", "s", "/", "t", "/", "0", "0", "1", "/", ".", ".", "/", ".", ".", "/", ".", ".", "/", "e", "t", "c", "/", "p", "a", "s", "s", "w", "d">>,
      <<"/", "f", "i", "l", "e", "s", "/">> }

PInit ==
    /\ \E d \in ServedDirs, t \in PathTargets, v \in FileVersions, cl \in FileConnectionLines :
          \E r \in From(<<"G", "E", "T", " ">> \o t \o <<" ">> \o v \o CRLF \o cl \o CRLF) :
             cin = [op |-> "path", dir |-> d, req |-> r]
    /\ cout = NoOutcome
    /\ HIdle
    /\ DIdle
    /\ RIdle
    /\ SIdle

\* s.filesGet(ctx, req, w) on a server whose directory is cin.dir.
PGet ==
    /\ cin.op = "path"
    /\ cout.op = "none"
    /\ LET fileName == TrimPrefix(cin.req.target, <<"/", "f", "i", "l", "e", "s", "/">>)
           joined == pathJoin(cin.dir, fileName)
       IN  \E w \in filesGet(cin.req, osReadFile(joined)) :
              cout' = [op |-> "path", path |-> joined, resp |-> w]
    /\ UNCHANGED <<cin, COthers>>

PNext == PGet

SpecPaths == PInit /\ [][PNext]_vars

\* The path p lies in the directory dir.
Within(p, dir) == HasPrefix(p, pathClean(dir) \o <<"/">>)

\* C28: a GET /files/ request whose name leads outside the served
\* directory is answered 404 with an empty body.
C28_NoTraversal ==
    (cout.op = "path" /\ ~Within(cout.path, cin.dir) /\ cout.path # pathClean(cin.dir)) =>
        /\ Split(cout.resp, CRLF)[1] = <<"H", "T", "T", "P", "/", "1", ".", "1", " ", "4", "0", "4", " ", "N", "o", "t", " ", "F", "o", "u", "n", "d">>
        /\ ResponseBody(cout.resp) = <<>>

----------------------------------------------------------------------------
(* Session termination and body framing *)

\* The ways handleConn returns an error to the goroutine that logs it.
ReportedEndings == {"readerr", "decodeerr", "handlererr"}

\* C29: a session that has ended has closed its socket and does nothing
\* more; after a read timeout and a non-keep-alive decision it returns
\* nil, after a read error and a handler error it returns the error; and
\* a session whose last read was malformed has closed its socket and
\* returned an error.
C29_TerminationPaths ==
    \A c \in Conns :
        /\ ended[c] # "no" => (sock[c] = "closed" /\ pc[c] = "closed" /\ running[c] = {})
        /\ pc[c] \in {"closed", "dead"} => sock[c] = "closed"
        /\ (buf[c] # <<>> /\ MalformedRequest(buf[c])) =>
              (sock[c] = "closed" /\ ended[c] \in ReportedEndings)

\* C30: the decoded body of a written request is the bytes after its blank
\* line.
C30_BodyFraming ==
    cout.op = "wire" => (cout.req.res = "ok" /\ cout.req.body = cin.body)

----------------------------------------------------------------------------
(* Header lines of a decoded request *)

\* The header lines of the buffer b as From takes them: the non-empty parts
\* between the first and the last.
HeaderLinesOf(b) ==
    LET parts == Split(b, CRLF)
    IN  SelectSeq(SubSeq(parts, 2, Len(parts) - 1), LAMBDA l : l # <<>>)

\* The name and the value of a header line: cut at the first colon, trimmed.
LineName(l) == TrimSpace(SplitN2(l, <<":">>)[1])

LineValue(l) == TrimSpace(SubSeq(l, Index(l, <<":">>) + 1, Len(l)))

\* C31: in a decoded request, for the last header line of each name (names
\* compared without case) the map holds, under the keys equal to the name
\* without case, exactly one entry with that line's value after the first
\* colon, trimmed; or none if that value is empty, as set removes then.
C31_HeaderLines ==
    dres.res = "ok" =>
        LET ls == HeaderLinesOf(dbuf)
        IN  \A i \in 1..Len(ls) :
               (/\ LineName(ls[i]) # <<>>
                /\ \A j \in (i + 1)..Len(ls) : ~EqualFold(LineName(ls[j]), LineName(ls[i]))) =>
                  LET matching == {k \in DOMAIN dres.headers : EqualFold(k, LineName(ls[i]))}
                  IN  IF LineValue(ls[i]) = <<>>
                      THEN matching = {}
                      ELSE /\ Cardinality(matching) = 1
                           /\ \A k \in matching : dres.headers[k] = LineValue(ls[i])

----------------------------------------------------------------------------
(* Stored key form of the Header Map *)

\* The name s with each hyphen-separated segment capitalized: its first
\* letter in upper case, its other letters in lower case.
Capitalized(s) ==
    [i \in 1..Len(s) |-> IF i = 1 \/ s[i-1] = "-" THEN ToUpper(s[i]) ELSE ToLower(s[i])]

\* The last call was Set(k, v) with k and v non-empty, and it left the map
\* as the claim describes, new names being stored under newKey(trimmed name).
SetStoredUnder(newKey(_)) ==
    (hlast.op = "set" /\ hlast.k # <<>> /\ hlast.v # <<>>) =>
        LET t == TrimSpace(hlast.k)
            hit == {hk \in DOMAIN hlast.before : EqualFold(hk, t)}
            key == IF hit # {} THEN CHOOSE hk \in hit : TRUE ELSE newKey(t)
        IN  /\ Cardinality(hit) <= 1
            /\ DOMAIN h = (DOMAIN hlast.before) \cup {key}
            /\ h[key] = hlast.v
            /\ \A x \in (DOMAIN hlast.before) \ {key} : h[x] = hlast.before[x]

\* C32 as stated: Set(name, v) with non-empty v changes only the value of
\* the entry whose key equals the trimmed name without case, or else
\* inserts one entry under the trimmed name with each hyphen-separated
\* segment capitalized; every other entry is unchanged.
C32_Original == SetStoredUnder(Capitalized)

\* C32 as amended: the same, a new name that holds a space or another byte
\* that is no token character being stored as trimmed, unchanged.
C32_StoredKey ==
    SetStoredUnder(LAMBDA t : IF \A i \in 1..Len(t) : IsTokenChar(t[i])
                              THEN Capitalized(t) ELSE t)

\* C32 witness: a Set of a new name given in lower case with a leading
\* space has inserted it capitalized and trimmed, next to older entries
\* that it left as they were.
C32_Witness ==
    /\ hlast.op = "set"
    /\ hlast.v # <<>>
    /\ TrimSpace(hlast.k) # hlast.k
    /\ hlast.before # EmptyHeaders
    /\ \A hk \in DOMAIN hlast.before : ~EqualFold(hk, TrimSpace(hlast.k))
    /\ Capitalized(TrimSpace(hlast.k)) # TrimSpace(hlast.k)
    /\ Capitalized(TrimSpace(hlast.k)) \in DOMAIN h
    /\ \A x \in DOMAIN hlast.before : h[x] = hlast.before[x]

----------------------------------------------------------------------------
(* Layout of the encoded response *)

\* The line l is a header line: a name, a colon and a space, a value.
IsHeaderLine(l) == Index(l, <<":", " ">>) > 1

\* C33: the response starts with the status line; with an empty body it is
\* the status line and header lines only and ends with the CRLF of the last
\* of them, without a blank line; with a body the last header line is
\* Content-Length with the length of the body, and a blank line and then
\* the body follow it.
C33_ResponseLayout ==
    cout.op = "respond" =>
        LET b == cout.writes[1]
            lines == Split(b, CRLF)
            hs == ResponseHeaderLines(b)
        IN  /\ lines[1] = <<"H", "T", "T", "P", "/", "1", ".", "1", " ">> \o Itoa(cin.code) \o <<" ">> \o StatusText(cin.code)
            /\ hs # <<>>
            /\ \A i \in 1..Len(hs) : IsHeaderLine(hs[i])
            /\ IF cin.body = <<>>
               THEN /\ Index(b, CRLF \o CRLF) = 0
                    /\ Len(lines) = Len(hs) + 2
                    /\ lines[Len(lines)] = <<>>
               ELSE /\ hs[Len(hs)] = <<"C", "o", "n", "t", "e", "n", "t", "-", "L", "e", "n", "g", "t", "h", ":", " ">> \o Itoa(Len(cin.body))
                    /\ b = lines[1] \o CRLF \o JoinLines(hs) \o CRLF \o cin.body

\* C33 witness: a response without body to a caller that set two headers,
\* and none of them Connection.
C33_Witness ==
    /\ cout.op = "respond"
    /\ cin.body = <<>>
    /\ Len(ResponseHeaderLines(cout.writes[1])) = 2
    /\ cout.writes[1][Len(cout.writes[1])] = "\n"
    /\ Index(cout.writes[1], CRLF \o CRLF) = 0

----------------------------------------------------------------------------
(* Routes registered with the prefix "/" *)

\* The registered routes with the request's method and the prefix "/", by
\* their place in the list.
RootRoutes ==
    { i \in 1..Len(routes) : routes[i].method = rlast.method /\ routes[i].prefix = <<"/">> }

\* A request for which a route with its method and the prefix "/" is
\* registered is not answered by the not-found handler, and when no earlier
\* route matches it the handler of that route is invoked.
RootAbsorbs ==
    LET first == CHOOSE i \in RootRoutes : \A j \in RootRoutes : i <= j
    IN  /\ Len(rlast.invoked) = 1
        /\ rlast.invoked[1] # NotFoundHandler
        /\ (\A j \in 1..(first - 1) : j \notin Matching) =>
              rlast.invoked = <<routes[first].handler>>

\* C34 as stated: a route with the prefix "/" absorbs every request of its
\* method, whatever the target.
C34_Original ==
    (rlast.op = "route" /\ RootRoutes # {}) => RootAbsorbs

\* C34 as amended: it absorbs every request of its method whose target
\* begins with "/".
C34_RootAbsorbs ==
    (rlast.op = "route" /\ RootRoutes # {} /\ HasPrefix(rlast.target, <<"/">>)) => RootAbsorbs

\* C34 witness: a request that the "/" route, registered after a more
\* specific route of the same method that does not match, has taken.
C34_Witness ==
    /\ rlast.op = "route"
    /\ RootRoutes # {}
    /\ 1 \notin RootRoutes
    /\ routes[1].method = rlast.method
    /\ Matching = RootRoutes
    /\ rlast.target # <<"/">>
    /\ \E i \in RootRoutes : rlast.invoked = <<routes[i].handler>>

----------------------------------------------------------------------------
(* Independence of the Listener Loop and the sessions *)

\* What belongs to the session of the connection c.
SessionState(c) ==
    <<pc[c], sock[c], buf[c], req[c], running[c], unanswered[c], resp[c], ended[c]>>

\* C35: while the process runs, the listener can take its next step
\* whatever the sessions are doing (blocked in a read or in a handler
\* writing): the check of the context, which returns once the context is
\* cancelled, the return of Accept, and the hand-over of a new connection,
\* after which the loop is back at its top with the session still running.
\* A step of the listener touches no running session, a step of a session
\* touches neither the listener nor another session, and the route list
\* never changes.
C35_ListenerIndependent ==
    /\ [](~crashed =>
            /\ lpc \in {"select", "logerr"} => ENABLED LSelect
            /\ lpc = "accept" =>
                  /\ ENABLED LAcceptTimeout
                  /\ ENABLED LAcceptError
                  /\ (\E c \in Conns : pc[c] = "idle") => ENABLED (\E c \in Conns : LAccept(c)))
    /\ [][/\ routes' = routes
          /\ \A c \in Conns : (pc[c] = "idle" /\ pc'[c] = "read") => lpc' = "select"
          /\ (lpc \in {"select", "logerr"} /\ lpc' # lpc) =>
                lpc' = IF ctxDone THEN "returned" ELSE "accept"
          /\ ~crashed' =>
                /\ Cardinality({c \in Conns : SessionState(c)' # SessionState(c)}) <= 1
                /\ \A c \in Conns :
                      (SessionState(c)' # SessionState(c) /\ pc[c] # "idle") => lpc' = lpc
                /\ lpc' # lpc =>
                      \A c \in Conns : pc[c] # "idle" => SessionState(c)' = SessionState(c)]_vars

\* C35 witness: the listener is in Accept again while the sessions of two
\* connections are both inside their handlers, and the context is cancelled.
C35_Witness ==
    /\ ~crashed
    /\ lpc = "accept"
    /\ ctxDone
    /\ \E c, d \in Conns : c # d /\ pc[c] = "handler" /\ pc[d] = "handler"

----------------------------------------------------------------------------
(* The Connection header of a response and the decision of the session *)

\* The response bytes b hold a Connection header line whose value is, in
\* any letter case, val (given in lower case).
Announces(b, val) ==
    LET hs == ResponseHeaderLines(b)
    IN  \E i \in LinesNamed(hs, <<"c", "o", "n", "n", "e", "c", "t", "i", "o", "n">>) :
           Lowered(TrimSpace(SubSeq(hs[i], Index(hs[i], <<":">>) + 1, Len(hs[i])))) = val

\* C36: a session that has closed its connection on a non-keep-alive
\* decision did not announce Connection: keep-alive in its last response,
\* and a session that reads again after a response did not announce
\* Connection: close in it.
C36_ConnectionAgrees ==
    \A c \in Conns :
        /\ ended[c] = "close" => ~Announces(resp[c], ConnectionKeepAlive)
        /\ (pc[c] = "read" /\ resp[c] # <<>>) => ~Announces(resp[c], ConnectionClose)

\* The bytes b up to and including their first blank line.
HeaderSectionOf(b) == SubSeq(b, 1, Index(b, CRLF \o CRLF) + 3)

\* C37: the headers decoded from a written request are those decoded from
\* its bytes up to the first blank line alone.
C37_HeadersFromSection ==
    cout.op = "wire" =>
        /\ cout.req.res = "ok"
        /\ cout.req.headers \in {r.headers : r \in From(HeaderSectionOf(cout.bytes))}

----------------------------------------------------------------------------
(* Reads and responses of a session *)

\* C38: a session holds the bytes of one read only, never those of two
\* reads together; the request it handles is the one decoded from these
\* bytes; and it has at most one request read and not answered, so it
\* never writes more responses than it has made successful reads.
C38_OneReadOneExchange ==
    \A c \in Conns :
        /\ buf[c] \in MainInputs \cup {<<>>}
        /\ unanswered[c] \in {0, 1}
        /\ Cardinality(running[c]) <= unanswered[c]
        /\ pc[c] \in {"handler", "decide"} =>
              /\ req[c] \in DecodedInputs[buf[c]]
              /\ req[c].res = "ok"
        /\ pc[c] = "decide" => unanswered[c] = 0

\* C38 witness: a session has answered the first half of a request that
\* came in two reads, as a request of its own, and reads again.
C38_Witness ==
    \E c \in Conns :
        /\ pc[c] = "read"
        /\ buf[c] = <<"G", "E", "T", " ", "/", " ", "H", "T", "T", "P", "/", "1", ".", "1", "\r", "\n", "H", "o">>
        /\ resp[c] # <<>>
        /\ unanswered[c] = 0

----------------------------------------------------------------------------
(* Sessions specification: the sessions of the connections Start accepts,  *)
(* each client sending requests for a while and then nothing more.         *)

\* What a client may send for one conn.Read: a request that keeps the
\* connection, one that ends it, and a malformed one.
TerminationInputs ==
    { <<"G", "E", "T", " ", "/", " ", "H", "T", "T", "P", "/", "1", ".", "1", "\r", "\n", "\r", "\n">>,
      <<"G", "E", "T", " ", "/", " ", "H", "T", "T", "P", "/", "1", ".", "0", "\r", "\n", "\r", "\n">>,
      <<"G", "E", "T", " ", "/", "\r", "\n", "\r", "\n">> }

TNext ==
    \/ LSelect
    \/ \E c \in Conns : LAccept(c)
    \/ \E c \in Conns, b \in TerminationInputs : SRead(c, b)
    \/ \E c \in Conns : SReadTimeout(c)
    \/ \E c \in Conns : SReadError(c)
    \/ \E c \in Conns, fs \in FileReads, wok \in BOOLEAN : SHandle(c, <<"r", "o", "o", "t", "G", "e", "t">>, fs, wok)
    \/ \E c \in Conns : SDecide(c)

\* Every handler returns, handleConn goes on to its next statement, and a
\* session that reads again and again comes to a read for which the client
\* sends nothing more, which returns a timeout (the 30 s deadline) or an
\* error.
FairSpecSessions ==
    /\ SInit
    /\ [][TNext]_vars
    /\ \A c \in Conns :
          /\ WF_vars(\E fs \in FileReads, wok \in BOOLEAN : SHandle(c, <<"r", "o", "o", "t", "G", "e", "t">>, fs, wok))
          /\ WF_vars(SDecide(c))
          /\ SF_vars(SReadTimeout(c) \/ SReadError(c))

\* C40: every session eventually closes its socket, and a session reads
\* again after a request only when the keep-alive decision for that
\* request is positive.
C40_SessionEnds ==
    /\ \A c \in Conns : (sock[c] = "open") ~> (sock[c] = "closed")
    /\ [][\A c \in Conns : (pc[c] = "decide" /\ pc'[c] = "read") => StaysOpen(req[c])]_vars

\* C40 witness: a session that answered a request, kept the connection and
\* then ended on a read timeout, its socket closed.
C40_Witness ==
    \E c \in Conns :
        /\ ended[c] = "timeout"
        /\ sock[c] = "closed"
        /\ resp[c] # <<>>
        /\ unanswered[c] = 0

----------------------------------------------------------------------------
(* Header names of the encoded response *)

\* C39: no two header lines of a response have the same name, letter case
\* aside.
C39_NoDuplicateHeaders ==
    cout.op = "respond" =>
        LET hs == ResponseHeaderLines(cout.writes[1])
        IN  \A i \in 1..Len(hs) : \A j \in 1..Len(hs) :
               Lowered(SplitN2(hs[i], <<":">>)[1]) = Lowered(SplitN2(hs[j], <<":">>)[1]) => i = j
====
